---- MODULE Spec2Model ----
(***************************************************************************)
(* A model of the segmented concurrent hash map of go-concurrentMap.       *)
(*                                                                         *)
(*   ConcurrentMap  (src/concurrentmap.go)   writers use CAS on bucket     *)
(*                                           heads and retry loops         *)
(*   WLockingMap    (src/unnamed/part_000)   writers hold the segment's    *)
(*                                           mutex                         *)
(*                                                                         *)
(* Memory is modelled explicitly: `heap` holds the Entry objects, `tables` *)
(* the bucket arrays, `segments` the Segment objects.  A reference is the  *)
(* index of the object in its sequence, 0 is nil.  Every step of a thread  *)
(* holds exactly one access to shared mutable memory (an atomic load,      *)
(* store, swap, CAS or add, or a plain read or write of a word that other  *)
(* threads write or read); reads of the immutable Entry fields key, hash   *)
(* and next, and work on objects not yet published, are folded into the    *)
(* step that follows them.  Inside a critical section of WLockingMap the   *)
(* reads of lock-protected data are folded the same way, every write is a  *)
(* step of its own because readers take no lock.                           *)
(***************************************************************************)
EXTENDS Integers, Sequences, FiniteSets, TLC

VARIABLES
    variant,        \* "cm": ConcurrentMap, "wl": WLockingMap
    mapCount,       \* ConcurrentMap.count / WLockingMap.count
    segmentMask,    \* ConcurrentMap.segmentMask
    segmentShift,   \* ConcurrentMap.segmentShift
    segments,       \* the Segment objects, segment i at index i+1
    tables,         \* every bucket array allocated so far
    heap,           \* every Entry allocated so far
    pc,             \* thread -> position in the operation it runs
    loc,            \* thread -> arguments and local variables of that operation
    hist,           \* thread -> the calls it has completed, with their results
    budget,         \* thread -> calls it may still start
    iter,           \* the MapIterator / WLockingMapIterator, once created
    construction    \* the arguments of the constructor and its panic, if any

vars == <<variant, mapCount, segmentMask, segmentShift, segments, tables, heap,
          pc, loc, hist, budget, iter, construction>>

mapVars == <<variant, segmentMask, segmentShift, construction>>

(***************************************************************************)
(* Bounds of the model.                                                    *)
(***************************************************************************)
NThreads == 2
MaxOps == 2

Threads == 1..NThreads

(***************************************************************************)
(* Program constants.                                                      *)
(***************************************************************************)
Nil == 0
MAXIMUM_CAPACITY == 2^30
MAX_SEGMENTS == 2^16
DEFAULT_LOAD_FACTOR == <<3, 4>>        \* 0.75 as numerator and denominator

\* A float32 load factor is a pair <<numerator, denominator>> with a
\* denominator > 0, or NaN, written 0/0: every comparison with NaN is false.
NaN == <<0, 0>>
IllegalArgError == -6                  \* errors.New("IllegalArgumentException")

(***************************************************************************)
(* uint32 arithmetic.                                                      *)
(***************************************************************************)
RECURSIVE BitAnd(_, _)
BitAnd(a, b) ==
    IF a = 0 \/ b = 0 THEN 0
    ELSE (a % 2) * (b % 2) + 2 * BitAnd(a \div 2, b \div 2)

\* Go: x >> s on a uint32 is 0 once s reaches the width.
ShiftRight(x, s) ==
    IF s >= 32 THEN 0
    ELSE IF s = 31 THEN (x \div (2^30)) \div 2
    ELSE x \div (2^s)

(***************************************************************************)
(* Keys and their mixed hashes hash2(hashI(key)).  The hash functions are  *)
(* not part of the sources at hand; the spec treats them as a provided     *)
(* deterministic function key -> uint32.  The keys are chosen to collide:  *)
(*   key 1, 2, 3 share bucket 0 of a table of length 1,                    *)
(*   key 1, 2 share bucket 0 of a table of length 2, key 3 is in bucket 1, *)
(*   key 1, 5 share bucket 0 of a table of length 4,                       *)
(*   key 4 has bit 30 set and so goes to segment 1 of 4 (the hashes stay   *)
(*   below 2^31, the largest integer the model checker represents).        *)
(***************************************************************************)
KeyHash == <<0, 2, 1, 2^30, 4>>
hash(key) == KeyHash[key]
Keys == 1..Len(KeyHash)

(***************************************************************************)
(* Entry, bucket arrays, Segment.                                          *)
(***************************************************************************)
Entry(key, h, value, next) == [key |-> key, hash |-> h, value |-> value, next |-> next]

\* int32(float32(len(newTable)) * this.loadFactor)
thresholdOf(len, lf) == (len * lf[1]) \div lf[2]

emptyTable(len) == [i \in 1..len |-> Nil]

\* newSegment with setTable: the segment whose table is tables[tab]
newSegment(tab, initialCapacity, lf) ==
    [pTable |-> tab, count |-> 0, threshold |-> thresholdOf(initialCapacity, lf),
     loadFactor |-> lf, lock |-> Nil]

segmentFor(h) == BitAnd(ShiftRight(h, segmentShift), segmentMask)

Seg(s) == segments[s + 1]
Slot(tab, idx) == tables[tab][idx + 1]
bucketOf(h, tab) == BitAnd(h, Len(tables[tab]) - 1)

\* A walk that stops at the first entry, whatever its key.
walkFirst(hp, e, h, key) == e

\* for e != nil && (e.hash != hash || key != e.key) { e = e.next }
RECURSIVE walk(_, _, _, _)
walk(hp, e, h, key) ==
    IF e = Nil THEN Nil
    ELSE IF hp[e].hash = h /\ hp[e].key = key THEN e
    ELSE walk(hp, hp[e].next, h, key)

(***************************************************************************)
(* Construction: newConcurrentMap3 / newWLockingMap3.                      *)
(***************************************************************************)
RECURSIVE ssizeFor(_, _)
ssizeFor(ssize, concurrencyLevel) ==
    IF ssize < concurrencyLevel THEN ssizeFor(ssize * 2, concurrencyLevel) ELSE ssize

RECURSIVE sshiftFor(_, _, _)
sshiftFor(sshift, ssize, concurrencyLevel) ==
    IF ssize < concurrencyLevel THEN sshiftFor(sshift + 1, ssize * 2, concurrencyLevel)
    ELSE sshift

RECURSIVE capFor(_, _)
capFor(cap, c) == IF cap < c THEN capFor(cap * 2, c) ELSE cap

\* loadFactor > 0 on float32
greaterThanZero(loadFactor) == loadFactor # NaN /\ loadFactor[1] > 0

\* A check that also rejects an initial capacity of 0.
IllegalArgumentZero(initialCapacity, loadFactor, concurrencyLevel) ==
    ~greaterThanZero(loadFactor) \/ initialCapacity <= 0 \/ concurrencyLevel <= 0

\* if !(loadFactor > 0) || initialCapacity < 0 || concurrencyLevel <= 0
IllegalArgument(initialCapacity, loadFactor, concurrencyLevel) ==
    ~greaterThanZero(loadFactor) \/ initialCapacity < 0 \/ concurrencyLevel <= 0

segmentCapacity(initialCapacity, ssize) ==
    LET ic == IF initialCapacity > MAXIMUM_CAPACITY THEN MAXIMUM_CAPACITY
              ELSE initialCapacity
        c0 == ic \div ssize
        c  == IF c0 * ssize < ic THEN c0 + 1 ELSE c0
    IN capFor(1, c)

\* The fields of a MapIterator; cm = "none" until NewMapIterator has run.
NoIterator ==
    [nextSegmentIndex |-> -1, nextTableIndex |-> -1, currentTable |-> Nil,
     nextEntry |-> Nil, lastReturned |-> Nil, cm |-> "none"]

\* A map[interface{}]interface{}, the argument of PutAll: the nil map, or
\* a set of <<key, value>> pairs with no key twice.  The length of the nil
\* map is 0 and a range over it yields nothing.
NilMap == [nil |-> TRUE, pairs |-> {}]
GoMap(pairs) == [nil |-> FALSE, pairs |-> pairs]

\* m, rest and err are the argument of PutAll, the pairs its range has yet
\* to yield and its named result; order is a history variable, the pairs in
\* the order the range has yielded them.
LocalsInit ==
    [op |-> "none", key |-> 0, hash |-> 0, value |-> 0, old |-> 0, seg |-> 0,
     c |-> 0, ptable |-> 0, idx |-> 0, first |-> 0, e |-> 0, v |-> 0,
     oldValue |-> 0, flag |-> FALSE,
     oldTable |-> 0, newTable |-> 0, i |-> 0, p |-> 0, lastRun |-> 0,
     newFirst |-> 0, before |-> {}, atCall |-> 0,
     m |-> NilMap, rest |-> {}, order |-> <<>>, err |-> 0]

\* The map newConcurrentMap3 / newWLockingMap3 returns.
made3(kind, initialCapacity, loadFactor, concurrencyLevel) ==
    LET cl    == IF concurrencyLevel > MAX_SEGMENTS THEN MAX_SEGMENTS
                 ELSE concurrencyLevel
        ssize == ssizeFor(1, cl)
        cap   == segmentCapacity(initialCapacity, ssize)
    IN /\ ~IllegalArgument(initialCapacity, loadFactor, concurrencyLevel)
       /\ variant = kind
       /\ mapCount = 0
       /\ segmentShift = 32 - sshiftFor(0, 1, cl)
       /\ segmentMask = ssize - 1
       /\ tables = [i \in 1..ssize |-> emptyTable(cap)]
       /\ segments = [i \in 1..ssize |-> newSegment(i, cap, loadFactor)]
       /\ heap = <<>>
       /\ hist = [t \in Threads |-> <<>>]
       /\ iter = NoIterator
       /\ construction = [initialCapacity |-> initialCapacity, loadFactor |-> loadFactor,
                          concurrencyLevel |-> concurrencyLevel, panic |-> Nil]

\* The state after construction: the map is made and no call runs.
newMap3(kind, initialCapacity, loadFactor, concurrencyLevel) ==
    /\ made3(kind, initialCapacity, loadFactor, concurrencyLevel)
    /\ pc = [t \in Threads |-> "idle"]
    /\ loc = [t \in Threads |-> LocalsInit]

\* NewConcurrentMapFromMap / NewWLockingMapFromMap: the capacity is
\* int(math.Max(float64(float32(len(m))/DEFAULT_LOAD_FACTOR+1),
\* float64(DEFAULT_INITIAL_CAPACITY))), and the constructor, thread 1, has
\* made the map and is about to run cm.PutAll(m); it returns the map, not
\* the error of PutAll.
DEFAULT_INITIAL_CAPACITY == 64
DEFAULT_CONCURRENCY_LEVEL == 16
capacityFromMap(m) ==
    LET c == (Cardinality(m.pairs) * DEFAULT_LOAD_FACTOR[2]) \div DEFAULT_LOAD_FACTOR[1] + 1
    IN IF c > DEFAULT_INITIAL_CAPACITY THEN c ELSE DEFAULT_INITIAL_CAPACITY
newMapFromMap(kind, m) ==
    /\ made3(kind, capacityFromMap(m), DEFAULT_LOAD_FACTOR, DEFAULT_CONCURRENCY_LEVEL)
    /\ pc = [t \in Threads |-> IF t = 1 THEN "putAll_check" ELSE "idle"]
    /\ loc = [t \in Threads |->
                IF t = 1 THEN [LocalsInit EXCEPT !.op = "PutAll", !.m = m,
                                                 !.rest = m.pairs]
                ELSE LocalsInit]

\* The constructor panics with IllegalArgError: no map exists.
newMap3Panics(kind, initialCapacity, loadFactor, concurrencyLevel) ==
    /\ IllegalArgument(initialCapacity, loadFactor, concurrencyLevel)
    /\ variant = kind
    /\ mapCount = 0 /\ segmentShift = 0 /\ segmentMask = 0
    /\ tables = <<>> /\ segments = <<>> /\ heap = <<>>
    /\ pc = [t \in Threads |-> "idle"]
    /\ loc = [t \in Threads |-> LocalsInit]
    /\ hist = [t \in Threads |-> <<>>]
    /\ iter = NoIterator
    /\ construction = [initialCapacity |-> initialCapacity, loadFactor |-> loadFactor,
                       concurrencyLevel |-> concurrencyLevel, panic |-> IllegalArgError]

\* The value the map holds for k: what Segment.get, run alone, finds.
\* Nothing when the count of k's segment is 0 (if count != 0 { ... }),
\* else what a walk of k's bucket in the current table of the segment finds.
entryOf(k) ==
    LET s   == segmentFor(hash(k))
        tab == Seg(s).pTable
    IN IF Seg(s).count = 0 THEN Nil
       ELSE walk(heap, Slot(tab, bucketOf(hash(k), tab)), hash(k), k)
valueOf(k) == IF entryOf(k) = Nil THEN Nil ELSE heap[entryOf(k)].value

(***************************************************************************)
(* Calls and returns.  `before` and `atCall` are history variables: the    *)
(* calls that had returned when this one was invoked, and the value its    *)
(* key was mapped to at that moment.                                       *)
(***************************************************************************)
Request(op, key, value, old) ==
    [op |-> op, key |-> key, value |-> value, old |-> old, m |-> NilMap]

\* The calls that have returned: <<thread, n>> is the n-th call of the thread.
Completed == UNION {{<<t, n>> : n \in 1..Len(hist[t])} : t \in Threads}

\* The public wrapper: hash the key, route to the segment, enter the
\* segment operation at `entry`.
Call(t, r, entry) ==
    /\ pc[t] = "idle"
    /\ budget[t] > 0
    /\ budget' = [budget EXCEPT ![t] = @ - 1]
    /\ loc' = [loc EXCEPT ![t] = [LocalsInit EXCEPT
                 !.op = r.op, !.key = r.key,
                 !.hash = IF r.key = Nil THEN 0 ELSE hash(r.key),
                 !.value = r.value, !.old = r.old,
                 !.seg = IF r.key = Nil THEN 0 ELSE segmentFor(hash(r.key)),
                 !.before = Completed,
                 !.atCall = IF r.key = Nil THEN Nil ELSE valueOf(r.key),
                 !.m = r.m, !.rest = r.m.pairs]]
    /\ pc' = [pc EXCEPT ![t] = entry]
    /\ UNCHANGED <<mapVars, iter, mapCount, segments, tables, heap, hist>>

Done(t, ret) ==
    /\ hist' = [hist EXCEPT ![t] = Append(@,
                 [op |-> loc[t].op, key |-> loc[t].key, value |-> loc[t].value,
                  old |-> loc[t].old, ret |-> ret, before |-> loc[t].before,
                  atCall |-> loc[t].atCall, m |-> loc[t].m,
                  order |-> loc[t].order])]
    /\ loc' = [loc EXCEPT ![t] = LocalsInit]
    /\ pc' = [pc EXCEPT ![t] = "idle"]

Goto(t, label) == pc' = [pc EXCEPT ![t] = label]

(***************************************************************************)
(* Readers.  Segment.get and Segment.containsKey; the two variants have    *)
(* the same code, getFirst being an atomic load of the table followed by   *)
(* an atomic load of the bucket head.                                      *)
(***************************************************************************)
\* if atomic.LoadInt32(&this.count) != 0 { ... } return nil
readCount(t, next, none) ==
    IF Seg(loc[t].seg).count # 0
    THEN /\ Goto(t, next)
         /\ UNCHANGED <<loc, hist>>
    ELSE Done(t, none)

\* getFirst, first half: tab = atomic.LoadPointer(&this.pTable)
readTable(t, next) ==
    /\ loc' = [loc EXCEPT ![t].ptable = Seg(loc[t].seg).pTable,
                          ![t].idx = bucketOf(loc[t].hash, Seg(loc[t].seg).pTable)]
    /\ Goto(t, next)

\* getFirst, second half: first = atomic.LoadPointer(&table[idx])
readFirst(t, next) ==
    /\ loc' = [loc EXCEPT ![t].first = Slot(loc[t].ptable, loc[t].idx),
                          ![t].e = Slot(loc[t].ptable, loc[t].idx)]
    /\ Goto(t, next)

get_count(t) ==
    /\ pc[t] = "get_count"
    /\ readCount(t, "get_table", Nil)
    /\ UNCHANGED <<mapVars, iter, mapCount, segments, tables, heap, budget>>

get_table(t) ==
    /\ pc[t] = "get_table"
    /\ readTable(t, "get_first")
    /\ UNCHANGED <<mapVars, iter, mapCount, segments, tables, heap, hist, budget>>

\* the head load and the walk over the immutable key, hash and next fields
get_first(t) ==
    /\ pc[t] = "get_first"
    /\ LET e == walk(heap, Slot(loc[t].ptable, loc[t].idx), loc[t].hash, loc[t].key)
       IN IF e = Nil
          THEN Done(t, Nil)
          ELSE /\ loc' = [loc EXCEPT ![t].e = e]
               /\ Goto(t, "get_value")
               /\ UNCHANGED hist
    /\ UNCHANGED <<mapVars, iter, mapCount, segments, tables, heap, budget>>

\* A get that always reads the value again under the lock.
get_valueUnderLock(t) ==
    /\ pc[t] = "get_value"
    /\ Goto(t, "readValueUnderLock")
    /\ UNCHANGED <<mapVars, iter, mapCount, segments, tables, heap, loc, hist, budget>>

\* v := e.Value(); if v != nil { return v }; return this.readValueUnderLock(e)
get_value(t) ==
    /\ pc[t] = "get_value"
    /\ IF heap[loc[t].e].value # Nil
       THEN Done(t, heap[loc[t].e].value)
       ELSE /\ Goto(t, "readValueUnderLock")
            /\ UNCHANGED <<loc, hist>>
    /\ UNCHANGED <<mapVars, iter, mapCount, segments, tables, heap, budget>>

containsKey_count(t) ==
    /\ pc[t] = "containsKey_count"
    /\ readCount(t, "containsKey_table", FALSE)
    /\ UNCHANGED <<mapVars, iter, mapCount, segments, tables, heap, budget>>

containsKey_table(t) ==
    /\ pc[t] = "containsKey_table"
    /\ readTable(t, "containsKey_first")
    /\ UNCHANGED <<mapVars, iter, mapCount, segments, tables, heap, hist, budget>>

containsKey_first(t) ==
    /\ pc[t] = "containsKey_first"
    /\ Done(t, walk(heap, Slot(loc[t].ptable, loc[t].idx), loc[t].hash, loc[t].key) # Nil)
    /\ UNCHANGED <<mapVars, iter, mapCount, segments, tables, heap, budget>>

\* The readers of WLockingMap: the same steps, in wLockingSegment.
w_get_count(t) == variant = "wl" /\ get_count(t)
w_get_table(t) == variant = "wl" /\ get_table(t)
w_get_first(t) == variant = "wl" /\ get_first(t)
w_get_value(t) == variant = "wl" /\ get_value(t)
w_containsKey_count(t) == variant = "wl" /\ containsKey_count(t)
w_containsKey_table(t) == variant = "wl" /\ containsKey_table(t)
w_containsKey_first(t) == variant = "wl" /\ containsKey_first(t)

(***************************************************************************)
(* Rehash helpers, shared by Segment.rehash and wLockingSegment.rehash.    *)
(***************************************************************************)
\* The head of the trailing run of the chain whose entries all go to one
\* slot of the new table: the loop over `last` with lastRun and lastIdx.
RECURSIVE lastRunFrom(_, _, _, _, _)
lastRunFrom(hp, last, lastRun, lastIdx, sizeMask) ==
    IF last = Nil THEN lastRun
    ELSE LET k == BitAnd(hp[last].hash, sizeMask)
         IN IF k # lastIdx
            THEN lastRunFrom(hp, hp[last].next, last, k, sizeMask)
            ELSE lastRunFrom(hp, hp[last].next, lastRun, lastIdx, sizeMask)

lastRunOf(hp, e, sizeMask) ==
    lastRunFrom(hp, hp[e].next, e, BitAnd(hp[e].hash, sizeMask), sizeMask)

\* A rehash that moves p itself to the head of the new slot, writing its
\* next field, instead of cloning it.
relinkInto(hp, nt, p, value, sizeMask) ==
    LET k == BitAnd(hp[p].hash, sizeMask)
    IN [heap  |-> [hp EXCEPT ![p].next = nt[k + 1]],
        table |-> [nt EXCEPT ![k + 1] = p]]

\* newTable[k] = &Entry{p.key, p.hash, value, newTable[k]}, with `value` the
\* value read from p.  The result is the heap and the new table after it.
cloneInto(hp, nt, p, value, sizeMask) ==
    LET k == BitAnd(hp[p].hash, sizeMask)
    IN [heap  |-> Append(hp, Entry(hp[p].key, hp[p].hash, value, nt[k + 1])),
        table |-> [nt EXCEPT ![k + 1] = Len(hp) + 1]]

\* A rehash that stores the last run into the slot of the chain's first
\* entry.
placeLastRunAtFirst(hp, nt, e, sizeMask) ==
    [nt EXCEPT ![BitAnd(hp[e].hash, sizeMask) + 1] = lastRunOf(hp, e, sizeMask)]

\* newTable[lastIdx] = lastRun (a single node is its own last run)
placeLastRun(hp, nt, e, sizeMask) ==
    LET lastRun == lastRunOf(hp, e, sizeMask)
    IN [nt EXCEPT ![BitAnd(hp[lastRun].hash, sizeMask) + 1] = lastRun]

\* for p := e; p != lastRun; p = p.next { clone p }
RECURSIVE cloneRun(_, _, _, _, _)
cloneRun(hp, nt, p, lastRun, sizeMask) ==
    IF p = lastRun THEN [heap |-> hp, table |-> nt]
    ELSE LET r == cloneInto(hp, nt, p, hp[p].value, sizeMask)
         IN cloneRun(r.heap, r.table, hp[p].next, lastRun, sizeMask)

\* for i := 0; i < oldCapacity; i++ { ... } over the old table `old`
RECURSIVE rehashFrom(_, _, _, _, _)
rehashFrom(hp, old, nt, i, sizeMask) ==
    IF i >= Len(old) THEN [heap |-> hp, table |-> nt]
    ELSE LET e == old[i + 1]
         IN IF e = Nil THEN rehashFrom(hp, old, nt, i + 1, sizeMask)
            ELSE LET r == cloneRun(hp, placeLastRun(hp, nt, e, sizeMask), e,
                                   lastRunOf(hp, e, sizeMask), sizeMask)
                 IN rehashFrom(r.heap, old, r.table, i + 1, sizeMask)

\* A clone of the entries before e that keeps them in their order.
RECURSIVE cloneBeforeInOrder(_, _, _, _)
cloneBeforeInOrder(hp, p, e, newFirst) ==
    IF p = e THEN [heap |-> hp, newFirst |-> newFirst]
    ELSE LET r == cloneBeforeInOrder(hp, hp[p].next, e, newFirst)
         IN [heap |-> Append(r.heap, Entry(hp[p].key, hp[p].hash, hp[p].value, r.newFirst)),
             newFirst |-> Len(r.heap) + 1]

\* Remove: newFirst := e.next; for p := first; p != e; p = p.next
\*           { newFirst = &Entry{p.key, p.hash, p.value, newFirst} }
RECURSIVE cloneBefore(_, _, _, _)
cloneBefore(hp, p, e, newFirst) ==
    IF p = e THEN [heap |-> hp, newFirst |-> newFirst]
    ELSE cloneBefore(Append(hp, Entry(hp[p].key, hp[p].hash, hp[p].value, newFirst)),
                     hp[p].next, e, Len(hp) + 1)

(***************************************************************************)
(* WLockingMap: the writers of wLockingSegment.                            *)
(***************************************************************************)
\* A mutex that never blocks.
lockAlwaysAvailable(s) == TRUE

\* One mutex shared by all the segments.
lockAvailableAnywhere(s) == \A n \in 1..Len(segments) : segments[n].lock = Nil

\* sync.Mutex: Lock blocks while the mutex is held.
lockAvailable(s) == Seg(s).lock = Nil

Lock(t, next) ==
    /\ lockAvailable(loc[t].seg)
    /\ segments' = [segments EXCEPT ![loc[t].seg + 1].lock = t]
    /\ Goto(t, next)

\* What the public wrapper returns from the segment operation's result.
resultOf(t) ==
    CASE loc[t].op = "RemoveEntry"       -> loc[t].oldValue # Nil
      [] loc[t].op = "CompareAndReplace" -> loc[t].flag
      [] OTHER                           -> loc[t].oldValue

\* What PutAll keeps when a Put it called has returned: its argument, the
\* state of its range and its result; the locals of the Put are gone.
putAllFrame(l) ==
    [LocalsInit EXCEPT !.op = l.op, !.before = l.before, !.atCall = l.atCall,
                       !.m = l.m, !.rest = l.rest, !.order = l.order,
                       !.err = l.err]

\* The segment operation returns: the public wrapper returns its result,
\* or the iterator's Remove, which called this.cm.Remove, goes on, or
\* PutAll, which called this.Put and drops what it returns, goes on with
\* its range.
Return(t) ==
    CASE loc[t].op = "IteratorRemove" ->
            /\ Goto(t, "iteratorRemove_clear")
            /\ UNCHANGED <<loc, hist>>
      [] loc[t].op = "PutAll" ->
            /\ Goto(t, "putAll_range")
            /\ loc' = [loc EXCEPT ![t] = putAllFrame(loc[t])]
            /\ UNCHANGED hist
      [] OTHER -> Done(t, resultOf(t))

\* A return that leaves the mutex locked.
w_unlockNever(t) ==
    /\ pc[t] = "w_unlock"
    /\ Return(t)
    /\ UNCHANGED <<mapVars, iter, mapCount, segments, tables, heap, budget>>

\* defer this.lock.Unlock(), and the return
w_unlock(t) ==
    /\ pc[t] = "w_unlock"
    /\ segments' = [segments EXCEPT ![loc[t].seg + 1].lock = Nil]
    /\ Return(t)
    /\ UNCHANGED <<mapVars, iter, mapCount, tables, heap, budget>>

w_put_lock(t) ==
    /\ pc[t] = "w_put_lock"
    /\ Lock(t, "w_put_check")
    /\ UNCHANGED <<mapVars, iter, mapCount, tables, heap, loc, hist, budget>>

\* A put that rehashes as soon as the count after the insertion would
\* exceed the threshold.
w_put_checkAhead(t) ==
    /\ pc[t] = "w_put_check"
    /\ loc' = [loc EXCEPT ![t].c = Seg(loc[t].seg).count + 1]
    /\ IF Seg(loc[t].seg).count + 1 > Seg(loc[t].seg).threshold
       THEN Goto(t, "w_rehash")
       ELSE Goto(t, "w_put_scan")
    /\ UNCHANGED <<mapVars, iter, mapCount, segments, tables, heap, hist, budget>>

\* c := this.count; if c > this.threshold { this.rehash() }; c++
w_put_check(t) ==
    /\ pc[t] = "w_put_check"
    /\ loc' = [loc EXCEPT ![t].c = Seg(loc[t].seg).count + 1]
    /\ IF Seg(loc[t].seg).count > Seg(loc[t].seg).threshold
       THEN Goto(t, "w_rehash")
       ELSE Goto(t, "w_put_scan")
    /\ UNCHANGED <<mapVars, iter, mapCount, segments, tables, heap, hist, budget>>

\* wLockingSegment.rehash, called with the lock held: nothing it reads can
\* change meanwhile, and the readers see only the store of pTable.
w_rehash(t) ==
    /\ pc[t] = "w_rehash"
    /\ LET s   == loc[t].seg
           old == tables[Seg(s).pTable]
           len == 2 * Len(old)
           r   == rehashFrom(heap, old, emptyTable(len), 0, len - 1)
       IN IF Len(old) >= MAXIMUM_CAPACITY
          THEN UNCHANGED <<segments, tables, heap>>
          ELSE /\ heap' = r.heap
               /\ tables' = Append(tables, r.table)
               /\ segments' = [segments EXCEPT
                     ![s + 1].threshold = thresholdOf(len, Seg(s).loadFactor),
                     ![s + 1].pTable = Len(tables) + 1]
    /\ Goto(t, "w_put_scan")
    /\ UNCHANGED <<mapVars, iter, mapCount, loc, hist, budget>>

\* tab := this.table(); first := tab[index]; the walk; oldValue = e.fastValue()
w_scan(t, next) ==
    LET tab == Seg(loc[t].seg).pTable
        idx == bucketOf(loc[t].hash, tab)
        e   == walk(heap, Slot(tab, idx), loc[t].hash, loc[t].key)
    IN /\ loc' = [loc EXCEPT ![t].ptable = tab, ![t].idx = idx,
                             ![t].first = Slot(tab, idx), ![t].e = e,
                             ![t].v = IF e = Nil THEN Nil ELSE heap[e].value]
       /\ Goto(t, next)

w_put_scan(t) ==
    /\ pc[t] = "w_put_scan"
    /\ w_scan(t, "w_put_store")
    /\ UNCHANGED <<mapVars, iter, mapCount, segments, tables, heap, hist, budget>>

\* A locked put that stores the value into an existing entry even when
\* onlyIfAbsent is set.
w_put_storeAlways(t) ==
    /\ pc[t] = "w_put_store"
    /\ IF loc[t].e # Nil
       THEN /\ loc' = [loc EXCEPT ![t].oldValue = loc[t].v]
            /\ heap' = [heap EXCEPT ![loc[t].e].value = loc[t].value]
            /\ Goto(t, "w_unlock")
            /\ UNCHANGED tables
       ELSE /\ heap' = Append(heap, Entry(loc[t].key, loc[t].hash, loc[t].value,
                                          loc[t].first))
            /\ tables' = [tables EXCEPT ![loc[t].ptable][loc[t].idx + 1] = Len(heap) + 1]
            /\ Goto(t, "w_put_count")
            /\ UNCHANGED loc
    /\ UNCHANGED <<mapVars, iter, mapCount, segments, hist, budget>>

\* e.storeValue(&value), or tab[index] = &Entry{key, hash, &value, first}
w_put_store(t) ==
    /\ pc[t] = "w_put_store"
    /\ IF loc[t].e # Nil
       THEN /\ loc' = [loc EXCEPT ![t].oldValue = loc[t].v]
            /\ heap' = IF loc[t].op = "PutIfAbsent" THEN heap
                       ELSE [heap EXCEPT ![loc[t].e].value = loc[t].value]
            /\ Goto(t, "w_unlock")
            /\ UNCHANGED tables
       ELSE /\ heap' = Append(heap, Entry(loc[t].key, loc[t].hash, loc[t].value,
                                          loc[t].first))
            /\ tables' = [tables EXCEPT ![loc[t].ptable][loc[t].idx + 1] = Len(heap) + 1]
            /\ Goto(t, "w_put_count")
            /\ UNCHANGED loc
    /\ UNCHANGED <<mapVars, iter, mapCount, segments, hist, budget>>

\* atomic.StoreInt32(&this.count, c)
w_storeCount(t, next) ==
    /\ segments' = [segments EXCEPT ![loc[t].seg + 1].count = loc[t].c]
    /\ Goto(t, next)

w_put_count(t) ==
    /\ pc[t] = "w_put_count"
    /\ w_storeCount(t, "w_put_sum")
    /\ UNCHANGED <<mapVars, iter, mapCount, tables, heap, loc, hist, budget>>

\* atomic.AddInt32(this.sumCount, 1)
w_put_sum(t) ==
    /\ pc[t] = "w_put_sum"
    /\ mapCount' = mapCount + 1
    /\ Goto(t, "w_unlock")
    /\ UNCHANGED <<mapVars, iter, segments, tables, heap, loc, hist, budget>>

w_remove_lock(t) ==
    /\ pc[t] = "w_remove_lock"
    /\ Lock(t, "w_remove_scan")
    /\ UNCHANGED <<mapVars, iter, mapCount, tables, heap, loc, hist, budget>>

\* c := this.count - 1, and the search for the entry
w_remove_scan(t) ==
    /\ pc[t] = "w_remove_scan"
    /\ LET tab == Seg(loc[t].seg).pTable
           idx == bucketOf(loc[t].hash, tab)
           e   == walk(heap, Slot(tab, idx), loc[t].hash, loc[t].key)
       IN loc' = [loc EXCEPT ![t].ptable = tab, ![t].idx = idx,
                             ![t].first = Slot(tab, idx), ![t].e = e,
                             ![t].v = IF e = Nil THEN Nil ELSE heap[e].value,
                             ![t].c = Seg(loc[t].seg).count - 1]
    /\ Goto(t, "w_remove_store")
    /\ UNCHANGED <<mapVars, iter, mapCount, segments, tables, heap, hist, budget>>

\* if value == nil || value == v { clone the preceding entries;
\*                                 tab[index] = newFirst }
w_remove_store(t) ==
    /\ pc[t] = "w_remove_store"
    /\ IF loc[t].e # Nil /\ (loc[t].value = Nil \/ loc[t].value = loc[t].v)
       THEN LET r == cloneBefore(heap, loc[t].first, loc[t].e, heap[loc[t].e].next)
            IN /\ heap' = r.heap
               /\ tables' = [tables EXCEPT ![loc[t].ptable][loc[t].idx + 1] = r.newFirst]
               /\ loc' = [loc EXCEPT ![t].oldValue = loc[t].v]
               /\ Goto(t, "w_remove_count")
       ELSE /\ Goto(t, "w_unlock")
            /\ UNCHANGED <<heap, tables, loc>>
    /\ UNCHANGED <<mapVars, iter, mapCount, segments, hist, budget>>

w_remove_count(t) ==
    /\ pc[t] = "w_remove_count"
    /\ w_storeCount(t, "w_remove_sum")
    /\ UNCHANGED <<mapVars, iter, mapCount, tables, heap, loc, hist, budget>>

\* atomic.AddInt32(this.sumCount, -1)
w_remove_sum(t) ==
    /\ pc[t] = "w_remove_sum"
    /\ mapCount' = mapCount - 1
    /\ Goto(t, "w_unlock")
    /\ UNCHANGED <<mapVars, iter, segments, tables, heap, loc, hist, budget>>

w_replace_lock(t) ==
    /\ pc[t] = "w_replace_lock"
    /\ Lock(t, "w_replace_scan")
    /\ UNCHANGED <<mapVars, iter, mapCount, tables, heap, loc, hist, budget>>

w_replace_scan(t) ==
    /\ pc[t] = "w_replace_scan"
    /\ w_scan(t, "w_replace_store")
    /\ UNCHANGED <<mapVars, iter, mapCount, segments, tables, heap, hist, budget>>

\* if e != nil { oldValue = e.fastValue(); e.storeValue(&newValue) }
w_replace_store(t) ==
    /\ pc[t] = "w_replace_store"
    /\ IF loc[t].e # Nil
       THEN /\ loc' = [loc EXCEPT ![t].oldValue = loc[t].v]
            /\ heap' = [heap EXCEPT ![loc[t].e].value = loc[t].value]
       ELSE UNCHANGED <<loc, heap>>
    /\ Goto(t, "w_unlock")
    /\ UNCHANGED <<mapVars, iter, mapCount, segments, tables, hist, budget>>

w_replaceWithOld_lock(t) ==
    /\ pc[t] = "w_replaceWithOld_lock"
    /\ Lock(t, "w_replaceWithOld_scan")
    /\ UNCHANGED <<mapVars, iter, mapCount, tables, heap, loc, hist, budget>>

w_replaceWithOld_scan(t) ==
    /\ pc[t] = "w_replaceWithOld_scan"
    /\ w_scan(t, "w_replaceWithOld_store")
    /\ UNCHANGED <<mapVars, iter, mapCount, segments, tables, heap, hist, budget>>

\* if e != nil && oldValue == e.fastValue() { replaced = true;
\*                                            e.storeValue(&newValue) }
w_replaceWithOld_store(t) ==
    /\ pc[t] = "w_replaceWithOld_store"
    /\ IF loc[t].e # Nil /\ loc[t].old = loc[t].v
       THEN /\ loc' = [loc EXCEPT ![t].flag = TRUE]
            /\ heap' = [heap EXCEPT ![loc[t].e].value = loc[t].value]
       ELSE UNCHANGED <<loc, heap>>
    /\ Goto(t, "w_unlock")
    /\ UNCHANGED <<mapVars, iter, mapCount, segments, tables, hist, budget>>

\* Segment.clear and wLockingSegment.clear are the same code: the count is
\* read before the lock is taken.  Clear() calls it for every segment in
\* turn; loc.seg is the segment it is at.
clear_count(t) ==
    /\ pc[t] = "clear_count"
    /\ IF Seg(loc[t].seg).count # 0
       THEN /\ loc' = [loc EXCEPT ![t].c = Seg(loc[t].seg).count]
            /\ Goto(t, "clear_lock")
            /\ UNCHANGED hist
       ELSE IF loc[t].seg + 1 < Len(segments)
       THEN /\ loc' = [loc EXCEPT ![t].seg = @ + 1]
            /\ UNCHANGED <<pc, hist>>
       ELSE Done(t, Nil)
    /\ UNCHANGED <<mapVars, iter, mapCount, segments, tables, heap, budget>>

clear_lock(t) ==
    /\ pc[t] = "clear_lock"
    /\ Lock(t, "clear_table")
    /\ UNCHANGED <<mapVars, iter, mapCount, tables, heap, loc, hist, budget>>

\* tab := this.table()
clear_table(t) ==
    /\ pc[t] = "clear_table"
    /\ loc' = [loc EXCEPT ![t].ptable = Seg(loc[t].seg).pTable, ![t].i = 0]
    /\ Goto(t, "clear_slot")
    /\ UNCHANGED <<mapVars, iter, mapCount, segments, tables, heap, hist, budget>>

\* for i := 0; i < len(tab); i++ { tab[i] = nil }
clear_slot(t) ==
    /\ pc[t] = "clear_slot"
    /\ tables' = [tables EXCEPT ![loc[t].ptable][loc[t].i + 1] = Nil]
    /\ loc' = [loc EXCEPT ![t].i = @ + 1]
    /\ IF loc[t].i + 1 < Len(tables[loc[t].ptable])
       THEN UNCHANGED pc
       ELSE Goto(t, "clear_store")
    /\ UNCHANGED <<mapVars, iter, mapCount, segments, heap, hist, budget>>

\* atomic.StoreInt32(&this.count, 0)
clear_store(t) ==
    /\ pc[t] = "clear_store"
    /\ segments' = [segments EXCEPT ![loc[t].seg + 1].count = 0]
    /\ Goto(t, "clear_sum")
    /\ UNCHANGED <<mapVars, iter, mapCount, tables, heap, loc, hist, budget>>

\* atomic.AddInt32(this.sumCount, -1*count)
clear_sum(t) ==
    /\ pc[t] = "clear_sum"
    /\ mapCount' = mapCount - loc[t].c
    /\ Goto(t, "clear_unlock")
    /\ UNCHANGED <<mapVars, iter, segments, tables, heap, loc, hist, budget>>

\* the deferred Unlock, and Clear()'s step to the next segment
clear_unlock(t) ==
    /\ pc[t] = "clear_unlock"
    /\ segments' = [segments EXCEPT ![loc[t].seg + 1].lock = Nil]
    /\ IF loc[t].seg + 1 < Len(segments)
       THEN /\ loc' = [loc EXCEPT ![t].seg = @ + 1, ![t].c = 0, ![t].i = 0,
                                  ![t].ptable = 0]
            /\ Goto(t, "clear_count")
            /\ UNCHANGED hist
       ELSE Done(t, Nil)
    /\ UNCHANGED <<mapVars, iter, mapCount, tables, heap, budget>>

w_clear_count(t) == variant = "wl" /\ clear_count(t)
w_clear_lock(t) == variant = "wl" /\ clear_lock(t)
w_clear_table(t) == variant = "wl" /\ clear_table(t)
w_clear_slot(t) == variant = "wl" /\ clear_slot(t)
w_clear_store(t) == variant = "wl" /\ clear_store(t)
w_clear_sum(t) == variant = "wl" /\ clear_sum(t)
w_clear_unlock(t) == variant = "wl" /\ clear_unlock(t)

(***************************************************************************)
(* ConcurrentMap: the writers of Segment.  Each is a retry loop            *)
(*     for { walk; head unchanged?; act; head unchanged?; table unchanged? *)
(*           return }                                                      *)
(* whose pieces are the operators below.                                   *)
(***************************************************************************)
\* A check that restarts the loop whether or not the head has changed.
checkHeadRestart(t, found, notFound, reload) ==
    /\ Goto(t, reload)
    /\ UNCHANGED loc

\* walk, then:  if first != atomic.LoadPointer(&tab[idx]) { ...; continue }
checkHead(t, found, notFound, reload) ==
    LET e == walk(heap, loc[t].first, loc[t].hash, loc[t].key)
    IN IF loc[t].first # Slot(loc[t].ptable, loc[t].idx)
       THEN /\ Goto(t, reload)
            /\ UNCHANGED loc
       ELSE /\ loc' = [loc EXCEPT ![t].e = e]
            /\ Goto(t, IF e # Nil THEN found ELSE notFound)

\* first = atomic.LoadPointer(&tab[idx]); e = first; the result so far is
\* dropped; continue
reloadHead(t, next) ==
    /\ loc' = [loc EXCEPT ![t].first = Slot(loc[t].ptable, loc[t].idx),
                          ![t].e = Slot(loc[t].ptable, loc[t].idx),
                          ![t].oldValue = Nil, ![t].flag = FALSE]
    /\ Goto(t, next)

\* after the write:  if first != atomic.LoadPointer(&tab[idx]) { ... }
recheckHead(t, next, reload) ==
    IF loc[t].first # Slot(loc[t].ptable, loc[t].idx)
    THEN Goto(t, reload)
    ELSE Goto(t, next)

\* if ptable != atomic.LoadPointer(&this.pTable) { getFirst again; continue }
\* and, the table being the same, the counters or the return
checkTable(t, retry, counted) ==
    IF loc[t].ptable # Seg(loc[t].seg).pTable
    THEN /\ loc' = [loc EXCEPT ![t].oldValue = Nil, ![t].flag = FALSE]
         /\ Goto(t, retry)
         /\ UNCHANGED hist
    ELSE IF loc[t].flag /\ counted # "none"
    THEN /\ Goto(t, counted)
         /\ UNCHANGED <<loc, hist>>
    ELSE Return(t)

\* atomic.AddInt32(&this.count, d)
addCount(t, d, next) ==
    /\ segments' = [segments EXCEPT ![loc[t].seg + 1].count = @ + d]
    /\ Goto(t, next)

\* atomic.AddInt32(this.pSumCount, d), and the return
addSum(t, d) ==
    /\ mapCount' = mapCount + d
    /\ Return(t)

(*************************** Segment.put ***********************************)
\* c := atomic.LoadInt32(&this.count)
put_count(t) ==
    /\ pc[t] = "put_count"
    /\ loc' = [loc EXCEPT ![t].c = Seg(loc[t].seg).count]
    /\ Goto(t, "put_threshold")
    /\ UNCHANGED <<mapVars, iter, mapCount, segments, tables, heap, hist, budget>>

\* if c > atomic.LoadInt32(&this.threshold) { this.rehash() }
put_threshold(t) ==
    /\ pc[t] = "put_threshold"
    /\ IF loc[t].c > Seg(loc[t].seg).threshold
       THEN Goto(t, "rehash_lock")
       ELSE Goto(t, "put_table")
    /\ UNCHANGED <<mapVars, iter, mapCount, segments, tables, heap, loc, hist, budget>>

put_table(t) ==
    /\ pc[t] = "put_table"
    /\ readTable(t, "put_first")
    /\ UNCHANGED <<mapVars, iter, mapCount, segments, tables, heap, hist, budget>>

put_first(t) ==
    /\ pc[t] = "put_first"
    /\ readFirst(t, "put_check")
    /\ UNCHANGED <<mapVars, iter, mapCount, segments, tables, heap, hist, budget>>

put_check(t) ==
    /\ pc[t] = "put_check"
    /\ checkHead(t, "put_swap", "put_cas", "put_reload")
    /\ UNCHANGED <<mapVars, iter, mapCount, segments, tables, heap, hist, budget>>

put_reload(t) ==
    /\ pc[t] = "put_reload"
    /\ reloadHead(t, "put_check")
    /\ UNCHANGED <<mapVars, iter, mapCount, segments, tables, heap, hist, budget>>

\* if !onlyIfAbsent { oldValue = atomic.SwapPointer(&e.value, &value) }
\* else { oldValue = e.Value() }
\* A swap that ignores onlyIfAbsent.
put_swapAlways(t) ==
    /\ pc[t] = "put_swap"
    /\ loc' = [loc EXCEPT ![t].oldValue = heap[loc[t].e].value]
    /\ heap' = [heap EXCEPT ![loc[t].e].value = loc[t].value]
    /\ Goto(t, "put_recheck")
    /\ UNCHANGED <<mapVars, iter, mapCount, segments, tables, hist, budget>>

put_swap(t) ==
    /\ pc[t] = "put_swap"
    /\ loc' = [loc EXCEPT ![t].oldValue = heap[loc[t].e].value]
    /\ heap' = IF loc[t].op = "PutIfAbsent" THEN heap
               ELSE [heap EXCEPT ![loc[t].e].value = loc[t].value]
    /\ Goto(t, "put_recheck")
    /\ UNCHANGED <<mapVars, iter, mapCount, segments, tables, hist, budget>>

put_recheck(t) ==
    /\ pc[t] = "put_recheck"
    /\ recheckHead(t, "put_checkTable", "put_reload")
    /\ UNCHANGED <<mapVars, iter, mapCount, segments, tables, heap, loc, hist, budget>>

\* A store that links the new entry in front of whatever the bucket holds,
\* without comparing the head with `first`.
put_push(t) ==
    /\ pc[t] = "put_cas"
    /\ heap' = Append(heap, Entry(loc[t].key, loc[t].hash, loc[t].value,
                                  Slot(loc[t].ptable, loc[t].idx)))
    /\ tables' = [tables EXCEPT ![loc[t].ptable][loc[t].idx + 1] = Len(heap) + 1]
    /\ loc' = [loc EXCEPT ![t].flag = TRUE]
    /\ Goto(t, "put_checkTable")
    /\ UNCHANGED <<mapVars, iter, mapCount, segments, hist, budget>>

\* atomic.CompareAndSwapPointer(&tab[idx], first,
\*                              &Entry{key, hash, &value, first})
put_cas(t) ==
    /\ pc[t] = "put_cas"
    /\ IF Slot(loc[t].ptable, loc[t].idx) = loc[t].first
       THEN /\ heap' = Append(heap, Entry(loc[t].key, loc[t].hash, loc[t].value,
                                          loc[t].first))
            /\ tables' = [tables EXCEPT ![loc[t].ptable][loc[t].idx + 1] = Len(heap) + 1]
            /\ loc' = [loc EXCEPT ![t].flag = TRUE]
            /\ Goto(t, "put_checkTable")
       ELSE /\ Goto(t, "put_reload")
            /\ UNCHANGED <<heap, tables, loc>>
    /\ UNCHANGED <<mapVars, iter, mapCount, segments, hist, budget>>

put_checkTable(t) ==
    /\ pc[t] = "put_checkTable"
    /\ checkTable(t, "put_table", "put_addCount")
    /\ UNCHANGED <<mapVars, iter, mapCount, segments, tables, heap, budget>>

put_addCount(t) ==
    /\ pc[t] = "put_addCount"
    /\ addCount(t, 1, "put_addSum")
    /\ UNCHANGED <<mapVars, iter, mapCount, tables, heap, loc, hist, budget>>

put_addSum(t) ==
    /\ pc[t] = "put_addSum"
    /\ addSum(t, 1)
    /\ UNCHANGED <<mapVars, iter, segments, tables, heap, budget>>

(*************************** Segment.rehash ********************************)
\* this.lock.Lock()
rehash_lock(t) ==
    /\ pc[t] = "rehash_lock"
    /\ Lock(t, "rehash_unlock")
    /\ UNCHANGED <<mapVars, iter, mapCount, tables, heap, loc, hist, budget>>

\* this.lock.Unlock(): the rest of rehash runs without the lock
rehash_unlock(t) ==
    /\ pc[t] = "rehash_unlock"
    /\ segments' = [segments EXCEPT ![loc[t].seg + 1].lock = Nil]
    /\ Goto(t, "rehash_count")
    /\ UNCHANGED <<mapVars, iter, mapCount, tables, heap, loc, hist, budget>>

\* atomic.LoadInt32(&this.count), the left side of the comparison
rehash_count(t) ==
    /\ pc[t] = "rehash_count"
    /\ loc' = [loc EXCEPT ![t].c = Seg(loc[t].seg).count]
    /\ Goto(t, "rehash_threshold")
    /\ UNCHANGED <<mapVars, iter, mapCount, segments, tables, heap, hist, budget>>

\* if count > atomic.LoadInt32(&this.threshold) { ... }
rehash_threshold(t) ==
    /\ pc[t] = "rehash_threshold"
    /\ IF loc[t].c > Seg(loc[t].seg).threshold
       THEN Goto(t, "rehash_table")
       ELSE Goto(t, "put_table")
    /\ UNCHANGED <<mapVars, iter, mapCount, segments, tables, heap, loc, hist, budget>>

\* oldTable := this.table(); if oldCapacity >= MAXIMUM_CAPACITY { return }
\* newTable := make([]unsafe.Pointer, oldCapacity<<1)
rehash_table(t) ==
    /\ pc[t] = "rehash_table"
    /\ LET old == Seg(loc[t].seg).pTable
       IN IF Len(tables[old]) >= MAXIMUM_CAPACITY
          THEN /\ Goto(t, "put_table")
               /\ UNCHANGED <<tables, loc>>
          ELSE /\ tables' = Append(tables, emptyTable(2 * Len(tables[old])))
               /\ loc' = [loc EXCEPT ![t].oldTable = old,
                                     ![t].newTable = Len(tables) + 1,
                                     ![t].i = 0]
               /\ Goto(t, "rehash_bucket")
    /\ UNCHANGED <<mapVars, iter, mapCount, segments, heap, hist, budget>>

\* e := (*Entry)(oldTable[i]), a plain read of the slot, and the placing of
\* the chain's last run; the clones follow one by one
rehash_bucket(t) ==
    /\ pc[t] = "rehash_bucket"
    /\ LET nt       == loc[t].newTable
           sizeMask == Len(tables[nt]) - 1
           e        == Slot(loc[t].oldTable, loc[t].i)
           lastRun  == lastRunOf(heap, e, sizeMask)
           last     == loc[t].i + 1 >= Len(tables[loc[t].oldTable])
       IN IF e = Nil \/ lastRun = e
          THEN /\ tables' = IF e = Nil THEN tables
                            ELSE [tables EXCEPT ![nt] = placeLastRun(heap, @, e, sizeMask)]
               /\ loc' = [loc EXCEPT ![t].i = @ + 1]
               /\ IF last THEN Goto(t, "rehash_publish") ELSE UNCHANGED pc
          ELSE /\ tables' = [tables EXCEPT ![nt] = placeLastRun(heap, @, e, sizeMask)]
               /\ loc' = [loc EXCEPT ![t].e = e, ![t].p = e, ![t].lastRun = lastRun]
               /\ Goto(t, "rehash_clone")
    /\ UNCHANGED <<mapVars, iter, mapCount, segments, heap, hist, budget>>

\* newTable[k] = &Entry{p.key, p.hash, p.value, newTable[k]}: p.value is
\* read without synchronization
rehash_clone(t) ==
    /\ pc[t] = "rehash_clone"
    /\ LET nt   == loc[t].newTable
           p    == loc[t].p
           r    == cloneInto(heap, tables[nt], p, heap[p].value, Len(tables[nt]) - 1)
           more == heap[p].next # loc[t].lastRun
           last == loc[t].i + 1 >= Len(tables[loc[t].oldTable])
       IN /\ heap' = r.heap
          /\ tables' = [tables EXCEPT ![nt] = r.table]
          /\ IF more
             THEN /\ loc' = [loc EXCEPT ![t].p = heap[p].next]
                  /\ UNCHANGED pc
             ELSE /\ loc' = [loc EXCEPT ![t].e = 0, ![t].p = 0, ![t].lastRun = 0,
                                        ![t].i = @ + 1]
                  /\ Goto(t, IF last THEN "rehash_publish" ELSE "rehash_bucket")
    /\ UNCHANGED <<mapVars, iter, mapCount, segments, hist, budget>>

\* atomic.StorePointer(&this.pTable, unsafe.Pointer(&newTable))
rehash_publish(t) ==
    /\ pc[t] = "rehash_publish"
    /\ segments' = [segments EXCEPT ![loc[t].seg + 1].pTable = loc[t].newTable]
    /\ Goto(t, "rehash_storeThreshold")
    /\ UNCHANGED <<mapVars, iter, mapCount, tables, heap, loc, hist, budget>>

\* atomic.StoreInt32(&this.threshold,
\*                   int32(float32(len(newTable))*this.loadFactor))
rehash_storeThreshold(t) ==
    /\ pc[t] = "rehash_storeThreshold"
    /\ segments' = [segments EXCEPT ![loc[t].seg + 1].threshold =
                      thresholdOf(Len(tables[loc[t].newTable]), Seg(loc[t].seg).loadFactor)]
    /\ loc' = [loc EXCEPT ![t].oldTable = 0, ![t].newTable = 0, ![t].i = 0]
    /\ Goto(t, "put_table")
    /\ UNCHANGED <<mapVars, iter, mapCount, tables, heap, hist, budget>>

(*************************** Segment.remove ********************************)
remove_table(t) ==
    /\ pc[t] = "remove_table"
    /\ readTable(t, "remove_first")
    /\ UNCHANGED <<mapVars, iter, mapCount, segments, tables, heap, hist, budget>>

remove_first(t) ==
    /\ pc[t] = "remove_first"
    /\ readFirst(t, "remove_check")
    /\ UNCHANGED <<mapVars, iter, mapCount, segments, tables, heap, hist, budget>>

remove_check(t) ==
    /\ pc[t] = "remove_check"
    /\ checkHead(t, "remove_value", "remove_checkTable", "remove_reload")
    /\ UNCHANGED <<mapVars, iter, mapCount, segments, tables, heap, hist, budget>>

remove_reload(t) ==
    /\ pc[t] = "remove_reload"
    /\ reloadHead(t, "remove_check")
    /\ UNCHANGED <<mapVars, iter, mapCount, segments, tables, heap, hist, budget>>

remove_recheck(t) ==
    /\ pc[t] = "remove_recheck"
    /\ recheckHead(t, "remove_checkTable", "remove_reload")
    /\ UNCHANGED <<mapVars, iter, mapCount, segments, tables, heap, loc, hist, budget>>

remove_checkTable(t) ==
    /\ pc[t] = "remove_checkTable"
    /\ checkTable(t, "remove_table", "remove_subCount")
    /\ UNCHANGED <<mapVars, iter, mapCount, segments, tables, heap, budget>>

\* A remove that unlinks the entry of the key whatever value it holds.
remove_valueAny(t) ==
    /\ pc[t] = "remove_value"
    /\ LET v == heap[loc[t].e].value
       IN /\ loc' = [loc EXCEPT ![t].v = v, ![t].oldValue = v,
                                ![t].newFirst = heap[loc[t].e].next,
                                ![t].p = loc[t].first]
          /\ Goto(t, IF loc[t].first # loc[t].e THEN "remove_clone" ELSE "remove_cas")
    /\ UNCHANGED <<mapVars, iter, mapCount, segments, tables, heap, hist, budget>>

\* v := e.Value(); if value == nil || value == v { oldValue = v;
\*                                                 newFirst := e.next; ... }
remove_value(t) ==
    /\ pc[t] = "remove_value"
    /\ LET v == heap[loc[t].e].value
       IN IF loc[t].value = Nil \/ loc[t].value = v
          THEN /\ loc' = [loc EXCEPT ![t].v = v, ![t].oldValue = v,
                                     ![t].newFirst = heap[loc[t].e].next,
                                     ![t].p = loc[t].first]
               /\ Goto(t, IF loc[t].first # loc[t].e THEN "remove_clone" ELSE "remove_cas")
          ELSE /\ loc' = [loc EXCEPT ![t].v = v]
               /\ Goto(t, "remove_recheck")
    /\ UNCHANGED <<mapVars, iter, mapCount, segments, tables, heap, hist, budget>>
\* A clone step that copies the value of the entry being removed instead of
\* the value of the entry it clones.
remove_cloneRemoved(t) ==
    /\ pc[t] = "remove_clone"
    /\ LET p == loc[t].p
       IN /\ heap' = Append(heap, Entry(heap[p].key, heap[p].hash,
                                        heap[loc[t].e].value, loc[t].newFirst))
          /\ loc' = [loc EXCEPT ![t].newFirst = Len(heap) + 1, ![t].p = heap[p].next]
          /\ IF heap[p].next # loc[t].e THEN UNCHANGED pc ELSE Goto(t, "remove_cas")
    /\ UNCHANGED <<mapVars, iter, mapCount, segments, tables, hist, budget>>

\* newFirst = &Entry{p.key, p.hash, p.value, newFirst}: p.value is read
\* without synchronization
remove_clone(t) ==
    /\ pc[t] = "remove_clone"
    /\ LET p == loc[t].p
       IN /\ heap' = Append(heap, Entry(heap[p].key, heap[p].hash, heap[p].value,
                                        loc[t].newFirst))
          /\ loc' = [loc EXCEPT ![t].newFirst = Len(heap) + 1, ![t].p = heap[p].next]
          /\ IF heap[p].next # loc[t].e THEN UNCHANGED pc ELSE Goto(t, "remove_cas")
    /\ UNCHANGED <<mapVars, iter, mapCount, segments, tables, hist, budget>>

\* atomic.CompareAndSwapPointer(&tab[idx], first, unsafe.Pointer(newFirst))
remove_cas(t) ==
    /\ pc[t] = "remove_cas"
    /\ IF Slot(loc[t].ptable, loc[t].idx) = loc[t].first
       THEN /\ tables' = [tables EXCEPT ![loc[t].ptable][loc[t].idx + 1] = loc[t].newFirst]
            /\ loc' = [loc EXCEPT ![t].flag = TRUE, ![t].newFirst = 0, ![t].p = 0]
            /\ Goto(t, "remove_checkTable")
       ELSE /\ Goto(t, "remove_reload")
            /\ loc' = [loc EXCEPT ![t].newFirst = 0, ![t].p = 0]
            /\ UNCHANGED tables
    /\ UNCHANGED <<mapVars, iter, mapCount, segments, heap, hist, budget>>

remove_subCount(t) ==
    /\ pc[t] = "remove_subCount"
    /\ addCount(t, -1, "remove_subSum")
    /\ UNCHANGED <<mapVars, iter, mapCount, tables, heap, loc, hist, budget>>

remove_subSum(t) ==
    /\ pc[t] = "remove_subSum"
    /\ addSum(t, -1)
    /\ UNCHANGED <<mapVars, iter, segments, tables, heap, budget>>

(*************************** Segment.replaceWithOld ************************)
replaceWithOld_table(t) ==
    /\ pc[t] = "replaceWithOld_table"
    /\ readTable(t, "replaceWithOld_first")
    /\ UNCHANGED <<mapVars, iter, mapCount, segments, tables, heap, hist, budget>>

replaceWithOld_first(t) ==
    /\ pc[t] = "replaceWithOld_first"
    /\ readFirst(t, "replaceWithOld_check")
    /\ UNCHANGED <<mapVars, iter, mapCount, segments, tables, heap, hist, budget>>

replaceWithOld_check(t) ==
    /\ pc[t] = "replaceWithOld_check"
    /\ checkHead(t, "replaceWithOld_value", "replaceWithOld_recheck", "replaceWithOld_reload")
    /\ UNCHANGED <<mapVars, iter, mapCount, segments, tables, heap, hist, budget>>

replaceWithOld_reload(t) ==
    /\ pc[t] = "replaceWithOld_reload"
    /\ reloadHead(t, "replaceWithOld_check")
    /\ UNCHANGED <<mapVars, iter, mapCount, segments, tables, heap, hist, budget>>

replaceWithOld_recheck(t) ==
    /\ pc[t] = "replaceWithOld_recheck"
    /\ recheckHead(t, "replaceWithOld_checkTable", "replaceWithOld_reload")
    /\ UNCHANGED <<mapVars, iter, mapCount, segments, tables, heap, loc, hist, budget>>

replaceWithOld_checkTable(t) ==
    /\ pc[t] = "replaceWithOld_checkTable"
    /\ checkTable(t, "replaceWithOld_table", "none")
    /\ UNCHANGED <<mapVars, iter, mapCount, segments, tables, heap, budget>>

\* if e != nil && oldValue == e.Value() { replaced = true; ... }
replaceWithOld_value(t) ==
    /\ pc[t] = "replaceWithOld_value"
    /\ IF loc[t].old = heap[loc[t].e].value
       THEN /\ loc' = [loc EXCEPT ![t].flag = TRUE]
            /\ Goto(t, "replaceWithOld_store")
       ELSE /\ Goto(t, "replaceWithOld_recheck")
            /\ UNCHANGED loc
    /\ UNCHANGED <<mapVars, iter, mapCount, segments, tables, heap, hist, budget>>

\* e.storeValue(&newValue)
replaceWithOld_store(t) ==
    /\ pc[t] = "replaceWithOld_store"
    /\ heap' = [heap EXCEPT ![loc[t].e].value = loc[t].value]
    /\ Goto(t, "replaceWithOld_recheck")
    /\ UNCHANGED <<mapVars, iter, mapCount, segments, tables, loc, hist, budget>>

(*************************** Segment.replace *******************************)
replace_table(t) ==
    /\ pc[t] = "replace_table"
    /\ readTable(t, "replace_first")
    /\ UNCHANGED <<mapVars, iter, mapCount, segments, tables, heap, hist, budget>>

replace_first(t) ==
    /\ pc[t] = "replace_first"
    /\ readFirst(t, "replace_check")
    /\ UNCHANGED <<mapVars, iter, mapCount, segments, tables, heap, hist, budget>>

replace_check(t) ==
    /\ pc[t] = "replace_check"
    /\ checkHead(t, "replace_swap", "replace_recheck", "replace_reload")
    /\ UNCHANGED <<mapVars, iter, mapCount, segments, tables, heap, hist, budget>>

replace_reload(t) ==
    /\ pc[t] = "replace_reload"
    /\ reloadHead(t, "replace_check")
    /\ UNCHANGED <<mapVars, iter, mapCount, segments, tables, heap, hist, budget>>

replace_recheck(t) ==
    /\ pc[t] = "replace_recheck"
    /\ recheckHead(t, "replace_checkTable", "replace_reload")
    /\ UNCHANGED <<mapVars, iter, mapCount, segments, tables, heap, loc, hist, budget>>

replace_checkTable(t) ==
    /\ pc[t] = "replace_checkTable"
    /\ checkTable(t, "replace_table", "none")
    /\ UNCHANGED <<mapVars, iter, mapCount, segments, tables, heap, budget>>

\* oldValue = atomic.SwapPointer(&e.value, unsafe.Pointer(&newValue))
replace_swap(t) ==
    /\ pc[t] = "replace_swap"
    /\ loc' = [loc EXCEPT ![t].oldValue = heap[loc[t].e].value]
    /\ heap' = [heap EXCEPT ![loc[t].e].value = loc[t].value]
    /\ Goto(t, "replace_recheck")
    /\ UNCHANGED <<mapVars, iter, mapCount, segments, tables, hist, budget>>

\* Segment.clear
cm_clear_count(t) == variant = "cm" /\ clear_count(t)
cm_clear_lock(t) == variant = "cm" /\ clear_lock(t)
cm_clear_table(t) == variant = "cm" /\ clear_table(t)
cm_clear_slot(t) == variant = "cm" /\ clear_slot(t)
cm_clear_store(t) == variant = "cm" /\ clear_store(t)
cm_clear_sum(t) == variant = "cm" /\ clear_sum(t)
cm_clear_unlock(t) == variant = "cm" /\ clear_unlock(t)

\* Segment.get and Segment.containsKey
cm_get_count(t) == variant = "cm" /\ get_count(t)
cm_get_table(t) == variant = "cm" /\ get_table(t)
cm_get_first(t) == variant = "cm" /\ get_first(t)
cm_get_value(t) == variant = "cm" /\ get_value(t)
cm_containsKey_count(t) == variant = "cm" /\ containsKey_count(t)
cm_containsKey_table(t) == variant = "cm" /\ containsKey_table(t)
cm_containsKey_first(t) == variant = "cm" /\ containsKey_first(t)

(***************************************************************************)
(* The public operations: ConcurrentMap.Put, WLockingMap.Put, ...          *)
(***************************************************************************)
entryPoint(op) ==
    CASE op = "Get"         -> "get_count"
      [] op = "ContainsKey" -> "containsKey_count"
      [] op = "Clear"       -> "clear_count"
      [] op = "IsEmpty"     -> "isEmpty_read"
      [] op = "Iterator"    -> "iterator_new"
      [] op = "HasNext"     -> "hasNext_read"
      [] op = "NextEntry"   -> "nextEntry_check"
      [] op = "IteratorRemove" -> "iteratorRemove_check"
      [] op = "PutAll"      -> "putAll_check"
      [] op \in {"Put", "PutIfAbsent"} ->
            IF variant = "cm" THEN "put_count" ELSE "w_put_lock"
      [] op \in {"Remove", "RemoveEntry"} ->
            IF variant = "cm" THEN "remove_table" ELSE "w_remove_lock"
      [] op = "Replace" ->
            IF variant = "cm" THEN "replace_table" ELSE "w_replace_lock"
      [] op = "CompareAndReplace" ->
            IF variant = "cm" THEN "replaceWithOld_table" ELSE "w_replaceWithOld_lock"

Get(k)           == Request("Get", k, Nil, Nil)
ContainsKey(k)   == Request("ContainsKey", k, Nil, Nil)
Put(k, v)        == Request("Put", k, v, Nil)
PutIfAbsent(k, v) == Request("PutIfAbsent", k, v, Nil)
Remove(k)        == Request("Remove", k, Nil, Nil)
RemoveEntry(k, v) == Request("RemoveEntry", k, v, Nil)
Replace(k, v)    == Request("Replace", k, v, Nil)
CompareAndReplace(k, old, new) == Request("CompareAndReplace", k, new, old)
Clear            == Request("Clear", Nil, Nil, Nil)
IsEmptyCall      == Request("IsEmpty", Nil, Nil, Nil)
Iterator         == Request("Iterator", Nil, Nil, Nil)
HasNext          == Request("HasNext", Nil, Nil, Nil)
NextEntry        == Request("NextEntry", Nil, Nil, Nil)
IteratorRemove   == Request("IteratorRemove", Nil, Nil, Nil)
PutAll(m)        == [Request("PutAll", Nil, Nil, Nil) EXCEPT !.m = m]

\* errors.New("Nil key error"), errors.New("Nil value error"), as values no
\* call returns otherwise.
NilKeyError == -4
NilValueError == -5

\* errors.New("Cannot copy nil map"), as a value no call returns otherwise.
CannotCopyNilMap == -6

\* isNil(v): v is nil
isNil(v) == v = Nil

\* An argument check that never looks at the values.
argumentErrorKeyOnly(r) ==
    IF r.op \in {"Get", "ContainsKey", "Put", "PutIfAbsent", "Remove", "RemoveEntry",
                 "Replace", "CompareAndReplace"} /\ isNil(r.key)
    THEN NilKeyError
    ELSE Nil

\* The checks every public operation starts with: if isNil(key) { return
\* ..., NilKeyError }; if isNil(value) { return ..., NilValueError }.  Nil
\* when the arguments pass.
argumentError(r) ==
    IF r.op \in {"Get", "ContainsKey", "Put", "PutIfAbsent", "Remove", "RemoveEntry",
                 "Replace", "CompareAndReplace"} /\ isNil(r.key)
    THEN NilKeyError
    ELSE IF \/ r.op \in {"Put", "PutIfAbsent", "RemoveEntry", "Replace"} /\ isNil(r.value)
            \/ r.op = "CompareAndReplace" /\ (isNil(r.old) \/ isNil(r.value))
    THEN NilValueError
    ELSE Nil

\* return ..., NilKeyError / return ..., NilValueError
argumentError_return(t) ==
    /\ pc[t] = "argumentError_return"
    /\ Done(t, argumentError(loc[t]))
    /\ UNCHANGED <<mapVars, iter, mapCount, segments, tables, heap, budget>>

\* A thread starts one of the calls `requests`.
Begin(t, requests) ==
    \E r \in requests :
        Call(t, r, IF argumentError(r) = Nil THEN entryPoint(r.op)
                   ELSE "argumentError_return")

(***************************************************************************)
(* PutAll, the same code in both variants.  It is one call: it tests its   *)
(* argument, then calls this.Put for every pair of the map, in whatever    *)
(* order the range yields them, and drops what the Puts return, their      *)
(* errors included.  The Puts run the steps of any other Put.              *)
(***************************************************************************)
\* if isNil(m) { err = errors.New("Cannot copy nil map") }
putAll_check(t) ==
    /\ pc[t] = "putAll_check"
    /\ loc' = [loc EXCEPT ![t].err =
                 IF loc[t].m = NilMap THEN CannotCopyNilMap ELSE Nil]
    /\ Goto(t, "putAll_range")
    /\ UNCHANGED <<mapVars, iter, mapCount, segments, tables, heap, hist, budget>>

\* for k, v := range m { this.Put(k, v) }; return.  The range is over, or
\* it yields one of the pairs it has not yielded yet: a Put of a nil key or
\* a nil value returns its error at once, any other enters the segment.
putAll_range(t) ==
    /\ pc[t] = "putAll_range"
    /\ \/ /\ loc[t].rest = {}
          /\ Done(t, loc[t].err)
       \/ \E kv \in loc[t].rest :
             LET r    == Put(kv[1], kv[2])
                 next == [loc[t] EXCEPT !.rest = @ \ {kv}, !.order = Append(@, kv)]
             IN /\ UNCHANGED hist
                /\ IF argumentError(r) # Nil
                   THEN /\ loc' = [loc EXCEPT ![t] = next]
                        /\ Goto(t, "putAll_range")
                   ELSE /\ loc' = [loc EXCEPT ![t] =
                                    [next EXCEPT !.key = r.key, !.hash = hash(r.key),
                                                 !.value = r.value,
                                                 !.seg = segmentFor(hash(r.key))]]
                        /\ Goto(t, entryPoint("Put"))
    /\ UNCHANGED <<mapVars, iter, mapCount, segments, tables, heap, budget>>

PutAllSteps(t) == putAll_check(t) \/ putAll_range(t)

(***************************************************************************)
(* Iterator support.  MapIterator and WLockingMapIterator have the same    *)
(* code.  advance is cut at its atomic loads; j, the index of the scan of  *)
(* a newly loaded table, is loc[t].i and seg is loc[t].seg.  A panic is    *)
(* the value the call ends with.                                           *)
(***************************************************************************)
\* panic(errors.New("NoSuchElementException")), panic("IllegalStateException")
\* and the runtime's index-out-of-range panic, as values no call returns.
NoSuchElementException == -1
IllegalStateException == -2
IndexOutOfRange == -3
Panics == {NoSuchElementException, IllegalStateException, IndexOutOfRange}

\* this.currentTable[idx] is inside the slice
inBounds(tab, idx) == tab # Nil /\ idx >= 0 /\ idx < Len(tables[tab])

\* A method of the iterator is called; the iterator exists.
BeginIterator(t, requests) == iter.cm # "none" /\ Begin(t, requests)

\* NewMapIterator, up to its call of advance
iterator_new(t) ==
    /\ pc[t] = "iterator_new"
    /\ iter' = [NoIterator EXCEPT !.nextSegmentIndex = Len(segments) - 1,
                                  !.cm = variant]
    /\ Goto(t, "advance_entry")
    /\ UNCHANGED <<mapVars, mapCount, segments, tables, heap, loc, hist, budget>>

\* return this.nextEntry != nil
hasNext_read(t) ==
    /\ pc[t] = "hasNext_read"
    /\ Done(t, iter.nextEntry # Nil)
    /\ UNCHANGED <<mapVars, iter, mapCount, segments, tables, heap, budget>>

\* A NextEntry that tests this.lastReturned where the code tests
\* this.nextEntry.
nextEntry_checkLast(t) ==
    /\ pc[t] = "nextEntry_check"
    /\ IF iter.lastReturned = Nil
       THEN /\ Done(t, NoSuchElementException)
            /\ UNCHANGED iter
       ELSE /\ iter' = [iter EXCEPT !.lastReturned = iter.nextEntry]
            /\ Goto(t, "advance_entry")
            /\ UNCHANGED <<loc, hist>>
    /\ UNCHANGED <<mapVars, mapCount, segments, tables, heap, budget>>

\* NextEntry, up to its call of advance
nextEntry_check(t) ==
    /\ pc[t] = "nextEntry_check"
    /\ IF iter.nextEntry = Nil
       THEN /\ Done(t, NoSuchElementException)
            /\ UNCHANGED iter
       ELSE /\ iter' = [iter EXCEPT !.lastReturned = iter.nextEntry]
            /\ Goto(t, "advance_entry")
            /\ UNCHANGED <<loc, hist>>
    /\ UNCHANGED <<mapVars, mapCount, segments, tables, heap, budget>>

\* advance returns: NewMapIterator returns the iterator, NextEntry returns
\* this.lastReturned.
advanceReturn(t) ==
    Done(t, IF loc[t].op = "NextEntry" THEN iter.lastReturned ELSE Nil)

\* if this.nextEntry != nil { this.nextEntry = this.nextEntry.next; ... }
advance_entry(t) ==
    /\ pc[t] = "advance_entry"
    /\ LET n == IF iter.nextEntry # Nil THEN heap[iter.nextEntry].next ELSE Nil
       IN /\ iter' = [iter EXCEPT !.nextEntry = n]
          /\ IF n # Nil
             THEN advanceReturn(t)
             ELSE /\ Goto(t, "advance_table")
                  /\ UNCHANGED <<loc, hist>>
    /\ UNCHANGED <<mapVars, mapCount, segments, tables, heap, budget>>

\* for this.nextTableIndex >= 0 { load currentTable[nextTableIndex]; ... }
advance_table(t) ==
    /\ pc[t] = "advance_table"
    /\ IF iter.nextTableIndex >= 0
       THEN IF inBounds(iter.currentTable, iter.nextTableIndex)
            THEN LET e == Slot(iter.currentTable, iter.nextTableIndex)
                 IN /\ iter' = [iter EXCEPT !.nextEntry = e, !.nextTableIndex = @ - 1]
                    /\ IF e # Nil THEN advanceReturn(t)
                       ELSE UNCHANGED <<pc, loc, hist>>
            ELSE /\ Done(t, IndexOutOfRange)
                 /\ UNCHANGED iter
       ELSE /\ Goto(t, "advance_segment")
            /\ UNCHANGED <<iter, loc, hist>>
    /\ UNCHANGED <<mapVars, mapCount, segments, tables, heap, budget>>

\* An advance that loads the table of every segment, empty or not.
advance_segmentAnyCount(t) ==
    /\ pc[t] = "advance_segment"
    /\ IF iter.nextSegmentIndex >= 0
       THEN /\ iter' = [iter EXCEPT !.nextSegmentIndex = @ - 1]
            /\ loc' = [loc EXCEPT ![t].seg = iter.nextSegmentIndex]
            /\ Goto(t, "advance_loadTable")
            /\ UNCHANGED hist
       ELSE /\ advanceReturn(t)
            /\ UNCHANGED iter
    /\ UNCHANGED <<mapVars, mapCount, segments, tables, heap, budget>>

\* for this.nextSegmentIndex >= 0 { seg := ...; if seg.count != 0 { ... } }
advance_segment(t) ==
    /\ pc[t] = "advance_segment"
    /\ IF iter.nextSegmentIndex >= 0
       THEN /\ iter' = [iter EXCEPT !.nextSegmentIndex = @ - 1]
            /\ loc' = [loc EXCEPT ![t].seg = iter.nextSegmentIndex]
            /\ IF Seg(iter.nextSegmentIndex).count # 0
               THEN Goto(t, "advance_loadTable") ELSE UNCHANGED pc
            /\ UNCHANGED hist
       ELSE /\ advanceReturn(t)
            /\ UNCHANGED iter
    /\ UNCHANGED <<mapVars, mapCount, segments, tables, heap, budget>>

\* this.currentTable = seg.loadTable(); j := len(this.currentTable) - 1
advance_loadTable(t) ==
    /\ pc[t] = "advance_loadTable"
    /\ iter' = [iter EXCEPT !.currentTable = Seg(loc[t].seg).pTable]
    /\ loc' = [loc EXCEPT ![t].i = Len(tables[Seg(loc[t].seg).pTable]) - 1]
    /\ Goto(t, "advance_scan")
    /\ UNCHANGED <<mapVars, mapCount, segments, tables, heap, hist, budget>>

\* for ...; j >= 0; j-- { load currentTable[j]; if != nil { ...; return } }
advance_scan(t) ==
    /\ pc[t] = "advance_scan"
    /\ IF loc[t].i >= 0
       THEN IF inBounds(iter.currentTable, loc[t].i)
            THEN LET e == Slot(iter.currentTable, loc[t].i)
                 IN IF e # Nil
                    THEN /\ iter' = [iter EXCEPT !.nextEntry = e,
                                                 !.nextTableIndex = loc[t].i - 1]
                         /\ advanceReturn(t)
                    ELSE /\ iter' = [iter EXCEPT !.nextEntry = e]
                         /\ loc' = [loc EXCEPT ![t].i = @ - 1]
                         /\ UNCHANGED <<pc, hist>>
            ELSE /\ Done(t, IndexOutOfRange)
                 /\ UNCHANGED iter
       ELSE /\ Goto(t, "advance_segment")
            /\ UNCHANGED <<iter, loc, hist>>
    /\ UNCHANGED <<mapVars, mapCount, segments, tables, heap, budget>>

\* MapIterator.Remove: if this.lastReturned == nil { panic(...) }, then
\* this.cm.Remove(this.lastReturned.key)
iteratorRemove_check(t) ==
    /\ pc[t] = "iteratorRemove_check"
    /\ IF iter.lastReturned = Nil
       THEN Done(t, IllegalStateException)
       ELSE LET k == heap[iter.lastReturned].key
            IN /\ loc' = [loc EXCEPT ![t].key = k, ![t].hash = hash(k),
                                     ![t].seg = segmentFor(hash(k))]
               /\ Goto(t, entryPoint("Remove"))
               /\ UNCHANGED hist
    /\ UNCHANGED <<mapVars, iter, mapCount, segments, tables, heap, budget>>

\* An iterator Remove that leaves this.lastReturned set.
iteratorRemove_clearKeep(t) ==
    /\ pc[t] = "iteratorRemove_clear"
    /\ Done(t, Nil)
    /\ UNCHANGED <<mapVars, iter, mapCount, segments, tables, heap, budget>>

\* this.lastReturned = nil, after the map's Remove has returned
iteratorRemove_clear(t) ==
    /\ pc[t] = "iteratorRemove_clear"
    /\ iter' = [iter EXCEPT !.lastReturned = Nil]
    /\ Done(t, Nil)
    /\ UNCHANGED <<mapVars, mapCount, segments, tables, heap, budget>>

IteratorSteps(t) ==
    \/ iterator_new(t) \/ hasNext_read(t) \/ nextEntry_check(t)
    \/ advance_entry(t) \/ advance_table(t) \/ advance_segment(t)
    \/ advance_loadTable(t) \/ advance_scan(t)

(***************************************************************************)
(* What a history says.  H(id) is the record of a completed call; a call   *)
(* a precedes a call b when a had returned before b was invoked.           *)
(***************************************************************************)
H(id) == hist[id[1]][id[2]]
Precedes(a, b) == a \in H(b).before
AllIdle == \A t \in Threads : pc[t] = "idle"
OpsOn(k) == {id \in Completed : H(id).key = k}

\* A sequential map restricted to one key: the result of a call made when
\* the key is mapped to st (Nil: no mapping), and the mapping after it.
seqRet(o, st) ==
    CASE o.op = "ContainsKey"       -> st # Nil
      [] o.op = "RemoveEntry"       -> st = o.value
      [] o.op = "CompareAndReplace" -> st = o.old
      [] OTHER                      -> st
seqNext(o, st) ==
    CASE o.op = "Put"               -> o.value
      [] o.op = "PutIfAbsent"       -> IF st = Nil THEN o.value ELSE st
      [] o.op = "Remove"            -> Nil
      [] o.op = "RemoveEntry"       -> IF st = o.value THEN Nil ELSE st
      [] o.op = "Replace"           -> IF st = Nil THEN Nil ELSE o.value
      [] o.op = "CompareAndReplace" -> IF st = o.old THEN o.value ELSE st
      [] OTHER                      -> st

\* The calls S can be put in a total order that respects Precedes and in
\* which every call returns what the sequential map returns, starting from
\* the mapping st; with `final` a value, the order also ends in it.
RECURSIVE Linearizable(_, _, _, _)
Linearizable(S, st, checkFinal, final) ==
    IF S = {} THEN (~checkFinal \/ st = final)
    ELSE \E a \in S :
            /\ \A b \in S \ {a} : ~Precedes(b, a)
            /\ H(a).ret = seqRet(H(a), st)
            /\ Linearizable(S \ {a}, seqNext(H(a), st), checkFinal, final)

(***************************************************************************)
(* SpecPutGet: ConcurrentMap with one segment of capacity 1; one thread     *)
(* puts key 1 and reads it back, the other puts keys 2 and 3 into the same *)
(* segment, which makes it rehash.                                         *)
(***************************************************************************)
RequestsPutGet(t) ==
    IF t = 1 THEN {Put(1, 1), Get(1)} ELSE {Put(2, 1), Put(3, 1)}

InitPutGet ==
    /\ newMap3("cm", 1, DEFAULT_LOAD_FACTOR, 1)
    /\ budget = [t \in Threads |-> MaxOps]

PutSteps(t) ==
    \/ put_count(t) \/ put_threshold(t) \/ put_table(t) \/ put_first(t)
    \/ put_check(t) \/ put_reload(t) \/ put_swap(t) \/ put_recheck(t)
    \/ put_cas(t) \/ put_checkTable(t) \/ put_addCount(t) \/ put_addSum(t)

RehashSteps(t) ==
    \/ rehash_lock(t) \/ rehash_unlock(t) \/ rehash_count(t) \/ rehash_threshold(t)
    \/ rehash_table(t) \/ rehash_bucket(t) \/ rehash_clone(t) \/ rehash_publish(t)
    \/ rehash_storeThreshold(t)

GetSteps(t) ==
    \/ cm_get_count(t) \/ cm_get_table(t) \/ cm_get_first(t) \/ cm_get_value(t)

NextPutGet ==
    \E t \in Threads :
        Begin(t, RequestsPutGet(t)) \/ PutSteps(t) \/ RehashSteps(t) \/ GetSteps(t)

SpecPutGet == InitPutGet /\ [][NextPutGet]_vars

\* C1: a Get(k) that starts after a Put(k, v) has returned, in a run with
\* no Remove, RemoveEntry or Clear, returns a value, not nil.
C1_CompletedPutVisible ==
    \A g \in Completed :
        (/\ H(g).op = "Get"
         /\ \E w \in H(g).before : H(w).op = "Put" /\ H(w).key = H(g).key)
        => H(g).ret # Nil

(***************************************************************************)
(* SpecValues: ConcurrentMap with one segment of capacity 1, so that every *)
(* key falls in bucket 0 until the segment is rehashed.  Thread 1 writes   *)
(* key 1; thread 2 inserts key 3 and races a CompareAndReplace of key 1.   *)
(***************************************************************************)
RequestsValues(t) ==
    IF t = 1 THEN {Put(1, 1), Put(1, 2), Replace(1, 2), CompareAndReplace(1, 1, 2)}
    ELSE {Put(3, 1), CompareAndReplace(1, 1, 2)}

InitValues ==
    /\ newMap3("cm", 1, DEFAULT_LOAD_FACTOR, 1)
    /\ budget = [t \in Threads |-> MaxOps]

ReplaceWithOldSteps(t) ==
    \/ replaceWithOld_table(t) \/ replaceWithOld_first(t) \/ replaceWithOld_check(t)
    \/ replaceWithOld_reload(t) \/ replaceWithOld_value(t) \/ replaceWithOld_store(t)
    \/ replaceWithOld_recheck(t) \/ replaceWithOld_checkTable(t)

ReplaceSteps(t) ==
    \/ replace_table(t) \/ replace_first(t) \/ replace_check(t) \/ replace_reload(t)
    \/ replace_swap(t) \/ replace_recheck(t) \/ replace_checkTable(t)

NextValues ==
    \E t \in Threads :
        \/ Begin(t, RequestsValues(t)) \/ PutSteps(t) \/ RehashSteps(t)
        \/ ReplaceWithOldSteps(t) \/ ReplaceSteps(t)

SpecValues == InitValues /\ [][NextValues]_vars

\* No thread but t has called, or is calling, an operation on key k.
OnlyThreadOn(t, k) ==
    \A u \in Threads \ {t} :
        /\ \A n \in 1..Len(hist[u]) : hist[u][n].key # k
        /\ pc[u] # "idle" => loc[u].key # k

\* C2: two concurrent CompareAndReplace(k, v, w), w # v, called when k is
\* mapped to v by Puts that had returned, with nothing else touching k:
\* exactly one returns true.
C2_ExactlyOneWins ==
    \A a \in Completed : \A b \in Completed \ {a} :
        (/\ H(a).op = "CompareAndReplace" /\ H(b).op = "CompareAndReplace"
         /\ H(a).key = H(b).key /\ H(a).old = H(b).old /\ H(a).value = H(b).value
         /\ H(a).value # H(a).old
         /\ ~Precedes(a, b) /\ ~Precedes(b, a)
         /\ H(a).atCall = H(a).old /\ H(b).atCall = H(b).old
         /\ \A o \in OpsOn(H(a).key) \ {a, b} :
               H(o).op = "Put" /\ H(o).value = H(a).old /\ Precedes(o, a) /\ Precedes(o, b)
         /\ \A t \in Threads : pc[t] # "idle" => loc[t].key # H(a).key)
        => (H(a).ret # H(b).ret)

\* C6: a CompareAndReplace(k, old, new) that returned false has left k
\* mapped to what it was mapped to when the call was made, when no other
\* thread operates on k (others put other keys into k's bucket).
C6_FailedCasChangesNothing ==
    \A t \in Threads :
        (/\ pc[t] = "idle" /\ Len(hist[t]) > 0
         /\ hist[t][Len(hist[t])].op = "CompareAndReplace"
         /\ hist[t][Len(hist[t])].ret = FALSE
         /\ OnlyThreadOn(t, hist[t][Len(hist[t])].key))
        => valueOf(hist[t][Len(hist[t])].key) = hist[t][Len(hist[t])].atCall

\* C7: Put(k, v) and Replace(k, v) return the value k was mapped to when
\* the call was made, when no other thread operates on k.
C7_ReturnsPreviousValue ==
    \A id \in Completed :
        (/\ H(id).op \in {"Put", "Replace"}
         /\ OnlyThreadOn(id[1], H(id).key))
        => H(id).ret = H(id).atCall

(***************************************************************************)
(* SpecRemoveEntry: ConcurrentMap with one segment of capacity 4.  Thread  *)
(* 1 puts key 1 twice; thread 2 removes (key 1, value 1) and puts key 5    *)
(* into the same bucket.                                                   *)
(***************************************************************************)
RequestsRemoveEntry(t) ==
    IF t = 1 THEN {Put(1, 1), Put(1, 2)} ELSE {RemoveEntry(1, 1), Put(5, 1)}

InitRemoveEntry ==
    /\ newMap3("cm", 4, DEFAULT_LOAD_FACTOR, 1)
    /\ budget = [t \in Threads |-> MaxOps]

RemoveSteps(t) ==
    \/ remove_table(t) \/ remove_first(t) \/ remove_check(t) \/ remove_reload(t)
    \/ remove_value(t) \/ remove_clone(t) \/ remove_cas(t) \/ remove_recheck(t)
    \/ remove_checkTable(t) \/ remove_subCount(t) \/ remove_subSum(t)

NextRemoveEntry ==
    \E t \in Threads :
        Begin(t, RequestsRemoveEntry(t)) \/ PutSteps(t) \/ RemoveSteps(t)

SpecRemoveEntry == InitRemoveEntry /\ [][NextRemoveEntry]_vars

\* Thread t, running RemoveEntry(k, v1), unlinks the entry of k from the
\* segment's current table in this step.
Unlinks(t) ==
    /\ pc[t] = "remove_cas" /\ pc'[t] = "remove_checkTable"
    /\ loc[t].op = "RemoveEntry"
    /\ loc[t].ptable = Seg(loc[t].seg).pTable
    /\ entryOf(loc[t].key) # Nil /\ entryOf(loc[t].key)' = Nil

\* A Put(k, v2) that replaced v1 = the value RemoveEntry of thread t
\* compares with has returned, and k is still mapped to v2.
PutHasReplaced(t) ==
    /\ valueOf(loc[t].key) # loc[t].value
    /\ \E w \in Completed :
          /\ H(w).op = "Put" /\ H(w).key = loc[t].key
          /\ H(w).ret = loc[t].value /\ H(w).value = valueOf(loc[t].key)

\* C3: once a Put(k, v2) that replaced v1 has returned, a concurrent
\* RemoveEntry(k, v1) does not remove the entry of k, now mapped to v2.
C3_RemoveEntryKeepsNewValue ==
    [][\A t \in Threads :
          (pc[t] = "remove_cas" /\ PutHasReplaced(t)) => ~Unlinks(t)]_vars

(***************************************************************************)
(* SpecWLocking: WLockingMap with one segment of capacity 4 and the single *)
(* key 1.  Thread 1 makes up to WriterOps calls that insert, remove and    *)
(* conditionally replace the key; thread 2 reads it and writes it too.     *)
(***************************************************************************)
WriterOps == 3

RequestsWLocking(t) ==
    IF t = 1 THEN {Put(1, 1), Put(1, 2), Remove(1), CompareAndReplace(1, 1, 2)}
    ELSE {Get(1), ContainsKey(1), Replace(1, 1), CompareAndReplace(1, 1, 2)}

InitWLocking ==
    /\ newMap3("wl", 4, DEFAULT_LOAD_FACTOR, 1)
    /\ budget = [t \in Threads |-> IF t = 1 THEN WriterOps ELSE MaxOps]

WReadSteps(t) ==
    \/ w_get_count(t) \/ w_get_table(t) \/ w_get_first(t) \/ w_get_value(t)
    \/ w_containsKey_count(t) \/ w_containsKey_table(t) \/ w_containsKey_first(t)

WPutSteps(t) ==
    \/ w_put_lock(t) \/ w_put_check(t) \/ w_put_scan(t) \/ w_put_store(t)
    \/ w_put_count(t) \/ w_put_sum(t) \/ w_unlock(t)

WRemoveSteps(t) ==
    \/ w_remove_lock(t) \/ w_remove_scan(t) \/ w_remove_store(t)
    \/ w_remove_count(t) \/ w_remove_sum(t)

WReplaceSteps(t) ==
    \/ w_replace_lock(t) \/ w_replace_scan(t) \/ w_replace_store(t)
    \/ w_replaceWithOld_lock(t) \/ w_replaceWithOld_scan(t) \/ w_replaceWithOld_store(t)

NextWLocking ==
    \E t \in Threads :
        \/ Begin(t, RequestsWLocking(t)) \/ WReadSteps(t)
        \/ WPutSteps(t) \/ WRemoveSteps(t) \/ WReplaceSteps(t)

SpecWLocking == InitWLocking /\ [][NextWLocking]_vars

\* C4: the calls on one key of a WLockingMap are linearizable: they can be
\* ordered, each between its invocation and its return, so that each
\* returns what a sequential map returns.
C4_PerKeyLinearizable ==
    AllIdle => Linearizable(OpsOn(1), Nil, TRUE, valueOf(1))

Writes == {"Put", "PutIfAbsent", "Remove", "RemoveEntry", "Replace", "CompareAndReplace"}
WritesOn(k) == {id \in OpsOn(k) : H(id).op \in Writes}

\* C5: CompareAndReplace of WLockingMap is atomic: ordered with the other
\* writes of the key, each between its invocation and its return, it
\* returns true exactly when the key was mapped to old, and then maps it to
\* new; when it returns false it leaves the mapping alone.
C5_CompareAndReplaceAtomic ==
    AllIdle => Linearizable(WritesOn(1), Nil, TRUE, valueOf(1))

\* Two overlapping CompareAndReplace(1, 1, 2) have returned, one true and
\* one false.
C5_Witness ==
    /\ AllIdle
    /\ \E a \in Completed : \E b \in Completed :
          /\ a[1] # b[1] /\ ~Precedes(a, b) /\ ~Precedes(b, a)
          /\ H(a).op = "CompareAndReplace" /\ H(b).op = "CompareAndReplace"
          /\ H(a).ret = TRUE /\ H(b).ret = FALSE

(***************************************************************************)
(* SpecWCount: WLockingMap with one segment of capacity 1, which rehashes  *)
(* on the second insertion.  Thread 1 puts key 3 and clears the map;       *)
(* thread 2 inserts and removes keys 2 and 3.                              *)
(***************************************************************************)
RequestsWCount(t) ==
    IF t = 1 THEN {Put(3, 1), Clear}
    ELSE {Put(2, 1), PutIfAbsent(3, 2), Remove(2), RemoveEntry(3, 1)}

InitWCount ==
    /\ newMap3("wl", 1, DEFAULT_LOAD_FACTOR, 1)
    /\ budget = [t \in Threads |-> MaxOps]

WClearSteps(t) ==
    \/ w_clear_count(t) \/ w_clear_lock(t) \/ w_clear_table(t) \/ w_clear_slot(t)
    \/ w_clear_store(t) \/ w_clear_sum(t) \/ w_clear_unlock(t)

NextWCount ==
    \E t \in Threads :
        \/ Begin(t, RequestsWCount(t))
        \/ WPutSteps(t) \/ w_rehash(t) \/ WRemoveSteps(t) \/ WClearSteps(t)

SpecWCount == InitWCount /\ [][NextWCount]_vars

\* Size(): atomic.LoadInt32(&this.count)
Size == mapCount

\* The entries on the chain that starts at entry e.
RECURSIVE chain(_)
chain(e) == IF e = Nil THEN {} ELSE {e} \cup chain(heap[e].next)

\* The entries reachable from the buckets of segment s's current table.
entriesOf(s) ==
    UNION {chain(Slot(Seg(s).pTable, i)) : i \in 0..(Len(tables[Seg(s).pTable]) - 1)}

RECURSIVE sumCounts(_)
sumCounts(n) == IF n = 0 THEN 0 ELSE segments[n].count + sumCounts(n - 1)

RECURSIVE sumEntries(_)
sumEntries(n) == IF n = 0 THEN 0 ELSE Cardinality(entriesOf(n - 1)) + sumEntries(n - 1)

\* C8: when no call is running on a WLockingMap, Size() is the sum of the
\* segments' count fields, which is the number of entries reachable from
\* the segments' tables.
C8_QuiescentSize ==
    AllIdle => /\ Size = sumCounts(Len(segments))
               /\ sumCounts(Len(segments)) = sumEntries(Len(segments))

(***************************************************************************)
(* SpecCount: ConcurrentMap with one segment of capacity 1, which rehashes *)
(* on the second insertion.  Thread 1 puts key 3 and clears the map;       *)
(* thread 2 inserts and removes keys 2 and 3.                              *)
(***************************************************************************)
RequestsCount(t) ==
    IF t = 1 THEN {Put(3, 1), Clear}
    ELSE {Put(2, 1), PutIfAbsent(3, 2), Remove(2), RemoveEntry(3, 1)}

InitCount ==
    /\ newMap3("cm", 1, DEFAULT_LOAD_FACTOR, 1)
    /\ budget = [t \in Threads |-> MaxOps]

ClearSteps(t) ==
    \/ cm_clear_count(t) \/ cm_clear_lock(t) \/ cm_clear_table(t) \/ cm_clear_slot(t)
    \/ cm_clear_store(t) \/ cm_clear_sum(t) \/ cm_clear_unlock(t)

NextCount ==
    \E t \in Threads :
        \/ Begin(t, RequestsCount(t))
        \/ PutSteps(t) \/ RehashSteps(t) \/ RemoveSteps(t) \/ ClearSteps(t)

SpecCount == InitCount /\ [][NextCount]_vars

\* C9: when no call is running on a ConcurrentMap, each segment's count is
\* the number of entries reachable from its table, and Size() is the sum
\* of the segments' counts.
C9_QuiescentCount ==
    AllIdle => /\ \A s \in 0..(Len(segments) - 1) :
                     Seg(s).count = Cardinality(entriesOf(s))
               /\ Size = sumCounts(Len(segments))

(***************************************************************************)
(* SpecChains: a map of either variant with one segment of capacity 1.     *)
(* Both threads insert key 3; thread 1 also clears the map, thread 2 also  *)
(* inserts key 2 and removes keys 2 and 3.  The second insertion rehashes. *)
(***************************************************************************)
InitChains ==
    /\ \E kind \in {"cm", "wl"} : newMap3(kind, 1, DEFAULT_LOAD_FACTOR, 1)
    /\ budget = [t \in Threads |-> MaxOps]

NextChains ==
    \E t \in Threads :
        \/ Begin(t, RequestsCount(t))
        \/ PutSteps(t) \/ RehashSteps(t) \/ RemoveSteps(t) \/ ClearSteps(t)
        \/ WPutSteps(t) \/ w_rehash(t) \/ WRemoveSteps(t) \/ WClearSteps(t)

SpecChains == InitChains /\ [][NextChains]_vars

\* The chain of the bucket key k maps to in its segment's current table.
chainOf(k) ==
    LET tab == Seg(segmentFor(hash(k))).pTable
    IN chain(Slot(tab, bucketOf(hash(k), tab)))

\* C10: in every state, the chain of the bucket a key maps to in its
\* segment's current table holds at most one entry with that key.
C10_OneEntryPerKey ==
    \A k \in Keys : Cardinality({e \in chainOf(k) : heap[e].key = k}) <= 1

\* Two overlapping insertions of one key by different threads have
\* returned, the segment has been rehashed, and the key is in its chain.
C10_Witness ==
    /\ Len(tables[Seg(0).pTable]) > 1
    /\ \E a \in Completed : \E b \in Completed :
          /\ a[1] # b[1] /\ ~Precedes(a, b) /\ ~Precedes(b, a)
          /\ H(a).op \in {"Put", "PutIfAbsent"} /\ H(b).op \in {"Put", "PutIfAbsent"}
          /\ H(a).key = H(b).key
          /\ \E e \in chainOf(H(a).key) : heap[e].key = H(a).key

(***************************************************************************)
(* SpecSequential: a map of either variant with one segment of capacity 1, *)
(* driven by thread 1 alone, one call after another.  Keys 1 and 2 share a *)
(* bucket until the table has length 4; key 3 makes the third insertion.   *)
(***************************************************************************)
SeqOps == 4

RequestsSequential ==
    {Get(1), ContainsKey(1), Put(1, 1), PutIfAbsent(1, 2), Remove(1),
     RemoveEntry(1, 1), Replace(1, 2), CompareAndReplace(1, 1, 2),
     Get(2), ContainsKey(2), Put(2, 1), Remove(2), Put(3, 1), Clear}

InitSequential ==
    /\ \E kind \in {"cm", "wl"} : newMap3(kind, 1, DEFAULT_LOAD_FACTOR, 1)
    /\ budget = [t \in Threads |-> IF t = 1 THEN SeqOps ELSE 0]

\* The steps a call takes when no other call runs: those that reload a
\* bucket head another thread has changed are left out.
SeqSteps(t) ==
    \/ put_count(t) \/ put_threshold(t) \/ put_table(t) \/ put_first(t)
    \/ put_check(t) \/ put_swap(t) \/ put_recheck(t) \/ put_cas(t)
    \/ put_checkTable(t) \/ put_addCount(t) \/ put_addSum(t) \/ RehashSteps(t)
    \/ remove_table(t) \/ remove_first(t) \/ remove_check(t) \/ remove_value(t)
    \/ remove_clone(t) \/ remove_cas(t) \/ remove_recheck(t) \/ remove_checkTable(t)
    \/ remove_subCount(t) \/ remove_subSum(t)
    \/ replaceWithOld_table(t) \/ replaceWithOld_first(t) \/ replaceWithOld_check(t)
    \/ replaceWithOld_value(t) \/ replaceWithOld_store(t) \/ replaceWithOld_recheck(t)
    \/ replaceWithOld_checkTable(t)
    \/ replace_table(t) \/ replace_first(t) \/ replace_check(t) \/ replace_swap(t)
    \/ replace_recheck(t) \/ replace_checkTable(t)
    \/ ClearSteps(t) \/ GetSteps(t)
    \/ cm_containsKey_count(t) \/ cm_containsKey_table(t) \/ cm_containsKey_first(t)

NextSequential ==
    \E t \in Threads :
        \/ Begin(t, RequestsSequential) \/ SeqSteps(t)
        \/ WReadSteps(t) \/ WPutSteps(t) \/ w_rehash(t) \/ WRemoveSteps(t)
        \/ WReplaceSteps(t) \/ WClearSteps(t)

SpecSequential == InitSequential /\ [][NextSequential]_vars

\* The naive reference map: a function from the keys to their values.
refEmpty == [k \in Keys |-> Nil]
refRet(o, m) ==
    CASE o.op = "Clear"  -> Nil
      [] o.op = "PutAll" -> IF o.m = NilMap THEN CannotCopyNilMap ELSE Nil
      [] OTHER           -> seqRet(o, m[o.key])
refStep(o, m) ==
    IF o.op = "Clear" THEN refEmpty ELSE [m EXCEPT ![o.key] = seqNext(o, m[o.key])]

\* The reference map after the first n calls of the history h.
RECURSIVE refAfter(_, _)
refAfter(h, n) == IF n = 0 THEN refEmpty ELSE refStep(h[n], refAfter(h, n - 1))

ReloadLabels == {"put_reload", "remove_reload", "replace_reload", "replaceWithOld_reload"}

\* C11: calls made one after another by a single thread return what the
\* reference map returns, and between calls the mapping and Size() are
\* those of the reference map; no call ever retries on a changed head.
C11_SequentialEquivalence ==
    LET h == hist[1]
    IN /\ \A n \in 1..Len(h) : h[n].ret = refRet(h[n], refAfter(h, n - 1))
       /\ pc[1] \notin ReloadLabels
       /\ pc[1] = "idle" =>
             LET m == refAfter(h, Len(h))
             IN /\ \A k \in Keys : valueOf(k) = m[k]
                /\ Size = Cardinality({k \in Keys : m[k] # Nil})

\* After three insertions, the second rehash having cloned an entry, a Get
\* has returned the value of a key.
C11_Witness ==
    /\ pc[1] = "idle" /\ Len(hist[1]) = SeqOps
    /\ Len(tables[Seg(0).pTable]) = 4
    /\ Len(heap) > 3
    /\ hist[1][SeqOps].op = "Get" /\ hist[1][SeqOps].ret # Nil

\* The value the call thread t returns from in this step.
Returned(t) == hist'[t][Len(hist'[t])].ret

\* C18: no step of a PutIfAbsent(k, v) changes the mapping of another key;
\* when k had a mapping at the call, no step changes the mapping of k or
\* Size() and the call returns the existing value; when k had none, the
\* call returns nil and k is mapped to v.
C18_PutIfAbsent ==
    [][\A t \in Threads :
          \A k \in Keys :
             (loc[t].op = "PutIfAbsent" /\ loc[t].key = k) =>
                /\ \A j \in Keys \ {k} : valueOf(j)' = valueOf(j)
                /\ loc[t].atCall # Nil =>
                      /\ valueOf(k)' = loc[t].atCall
                      /\ Size' = Size
                      /\ pc'[t] = "idle" => Returned(t) = loc[t].atCall
                /\ (loc[t].atCall = Nil /\ pc'[t] = "idle") =>
                      /\ Returned(t) = Nil
                      /\ valueOf(k)' = loc[t].value]_vars

\* A PutIfAbsent(1, 2) has returned the value of key 1, which is still
\* mapped to it, in a rehashed table that holds another key too.
C18_Witness ==
    /\ pc[1] = "idle" /\ Len(hist[1]) > 0
    /\ LET last == hist[1][Len(hist[1])]
       IN /\ last.op = "PutIfAbsent" /\ last.atCall = 1 /\ last.ret = 1
          /\ last.value = 2
    /\ valueOf(1) = 1 /\ valueOf(2) # Nil
    /\ Len(tables[Seg(0).pTable]) > 1

\* C19: a RemoveEntry(k, v) called when k is mapped to v returns true and
\* leaves k without a mapping; called when k is absent or mapped to another
\* value, it returns false and no step of it changes a mapping, a segment
\* count or Size().
C19_RemoveEntry ==
    [][\A t \in Threads : \A k \in Keys :
          (loc[t].op = "RemoveEntry" /\ loc[t].key = k) =>
             IF loc[t].atCall = loc[t].value
             THEN /\ \A j \in Keys \ {k} : valueOf(j)' = valueOf(j)
                  /\ pc'[t] = "idle" => (Returned(t) = TRUE /\ valueOf(k)' = Nil)
             ELSE /\ \A j \in Keys : valueOf(j)' = valueOf(j)
                  /\ \A n \in 1..Len(segments) : segments'[n].count = segments[n].count
                  /\ Size' = Size
                  /\ pc'[t] = "idle" => Returned(t) = FALSE]_vars

\* A RemoveEntry(1, 1) has returned false with key 1 mapped to 2, and key
\* 1 is still mapped to 2.
C19_Witness ==
    /\ pc[1] = "idle" /\ Len(hist[1]) > 0
    /\ LET last == hist[1][Len(hist[1])]
       IN /\ last.op = "RemoveEntry" /\ last.value = 1 /\ last.atCall = 2
          /\ last.ret = FALSE
    /\ valueOf(1) = 2 /\ Size = 1

(***************************************************************************)
(* SpecAbsentKey: a map of either variant with one segment of capacity 1.  *)
(* Key 1 is never inserted.  Thread 1 reads keys 1 and 2 and puts key 2;   *)
(* thread 2 inserts key 3 and removes key 2, in the bucket of key 1, and   *)
(* the insertions rehash the segment.                                      *)
(***************************************************************************)
RequestsAbsentKey(t) ==
    IF t = 1 THEN {Get(1), ContainsKey(1), Get(2), Put(2, 1)}
    ELSE {Put(3, 1), Remove(2), RemoveEntry(2, 2)}

InitAbsentKey ==
    /\ \E kind \in {"cm", "wl"} : newMap3(kind, 1, DEFAULT_LOAD_FACTOR, 1)
    /\ budget = [t \in Threads |-> MaxOps]

NextAbsentKey ==
    \E t \in Threads :
        \/ Begin(t, RequestsAbsentKey(t))
        \/ GetSteps(t) \/ cm_containsKey_count(t) \/ cm_containsKey_table(t)
        \/ cm_containsKey_first(t) \/ PutSteps(t) \/ RehashSteps(t) \/ RemoveSteps(t)
        \/ WReadSteps(t) \/ WPutSteps(t) \/ w_rehash(t) \/ WRemoveSteps(t)

SpecAbsentKey == InitAbsentKey /\ [][NextAbsentKey]_vars

\* No Put or PutIfAbsent of key k has been called.
NeverPut(k) ==
    /\ \A id \in Completed : H(id).key = k => H(id).op \notin {"Put", "PutIfAbsent"}
    /\ \A t \in Threads : loc[t].key = k => loc[t].op \notin {"Put", "PutIfAbsent"}

\* C12: for a key never passed to Put or PutIfAbsent, every Get has
\* returned nil and every ContainsKey false.
C12_AbsentKeyNeverFound ==
    \A id \in Completed :
        NeverPut(H(id).key) =>
            /\ H(id).op = "Get" => H(id).ret = Nil
            /\ H(id).op = "ContainsKey" => H(id).ret = FALSE

\* A Get of the never-inserted key 1 has returned while its bucket held
\* the entries of other keys in a rehashed table, a Put overlapping it.
C12_Witness ==
    /\ NeverPut(1)
    /\ Len(tables[Seg(0).pTable]) > 1
    /\ chainOf(1) # {}
    /\ \E g \in Completed : \E w \in Completed :
          /\ H(g).op = "Get" /\ H(g).key = 1
          /\ H(w).op = "Put" /\ ~Precedes(w, g) /\ ~Precedes(g, w)

(***************************************************************************)
(* SpecStoredValues: a map of either variant with one segment of capacity  *)
(* 1, every key with values of its own (key 1: 1, key 2: 3 and 5, key 3:   *)
(* 4).  Thread 1 puts keys 1 and 3 and removes key 1; thread 2 puts,       *)
(* replaces and reads key 2.  A removal clones the entries in front of the *)
(* removed one and the insertions rehash the segment.                      *)
(***************************************************************************)
RequestsStoredValues(t) ==
    IF t = 1 THEN {Put(1, 1), Put(3, 4), Remove(1)}
    ELSE {Put(2, 3), Get(2), Replace(2, 5)}

InitStoredValues ==
    /\ \E kind \in {"cm", "wl"} : newMap3(kind, 1, DEFAULT_LOAD_FACTOR, 1)
    /\ budget = [t \in Threads |-> MaxOps]

NextStoredValues ==
    \E t \in Threads :
        \/ Begin(t, RequestsStoredValues(t))
        \/ GetSteps(t) \/ PutSteps(t) \/ RehashSteps(t) \/ ReplaceSteps(t)
        \/ remove_table(t) \/ remove_first(t) \/ remove_check(t) \/ remove_reload(t)
        \/ remove_value(t) \/ remove_clone(t) \/ remove_cas(t)
        \/ remove_checkTable(t) \/ remove_subCount(t) \/ remove_subSum(t)
        \/ w_get_count(t) \/ w_get_table(t) \/ w_get_first(t) \/ w_get_value(t)
        \/ WPutSteps(t) \/ w_rehash(t) \/ WRemoveSteps(t)
        \/ w_replace_lock(t) \/ w_replace_scan(t) \/ w_replace_store(t)

SpecStoredValues == InitStoredValues /\ [][NextStoredValues]_vars

StoringOps == {"Put", "PutIfAbsent", "Replace", "CompareAndReplace"}

\* The values the calls invoked so far have asked to store for key k.
StoredFor(k) ==
    {H(id).value : id \in {c \in Completed : H(c).key = k /\ H(c).op \in StoringOps}}
    \cup {loc[t].value : t \in {u \in Threads : loc[u].key = k /\ loc[u].op \in StoringOps}}

\* C13: a Get(k) returns nil or a value that a Put, PutIfAbsent, Replace or
\* CompareAndReplace call stored for the same key k.
C13_GetReturnsOwnValue ==
    \A g \in Completed :
        H(g).op = "Get" => H(g).ret \in {Nil} \cup StoredFor(H(g).key)

\* A Get(2) has returned the value of key 2 after a Remove(1) that found
\* the entry of key 2 in front of the entry of key 1 and cloned it.
C13_Witness ==
    /\ Len(tables[Seg(0).pTable]) > 1
    /\ Len(heap) > 2
    /\ \E g \in Completed : \E r \in Completed : \E w \in Completed :
          /\ H(g).op = "Get" /\ H(g).key = 2 /\ H(g).ret = 3
          /\ H(r).op = "Remove" /\ H(r).key = 1 /\ H(r).ret = 1
          /\ H(w).op = "Put" /\ H(w).key = 2 /\ H(w).atCall = Nil
          /\ \E u \in H(w).before : H(u).op = "Put" /\ H(u).key = 1
          /\ Precedes(w, r) /\ Precedes(r, g)

(***************************************************************************)
(* SpecIsEmpty: a map of either variant with one segment of capacity 4.    *)
(* Thread 1 calls IsEmpty; thread 2 puts keys 1 and 2 and removes key 1.   *)
(***************************************************************************)
\* IsEmpty(): return atomic.LoadInt32(&this.count) > 0
IsEmpty == mapCount > 0

isEmpty_read(t) ==
    /\ pc[t] = "isEmpty_read"
    /\ Done(t, IsEmpty)
    /\ UNCHANGED <<mapVars, iter, mapCount, segments, tables, heap, budget>>

RequestsIsEmpty(t) ==
    IF t = 1 THEN {IsEmptyCall} ELSE {Put(1, 1), Put(2, 1), Remove(1)}

InitIsEmpty ==
    /\ \E kind \in {"cm", "wl"} : newMap3(kind, 4, DEFAULT_LOAD_FACTOR, 1)
    /\ budget = [t \in Threads |-> MaxOps]

NextIsEmpty ==
    \E t \in Threads :
        \/ Begin(t, RequestsIsEmpty(t)) \/ isEmpty_read(t)
        \/ put_count(t) \/ put_threshold(t) \/ put_table(t) \/ put_first(t)
        \/ put_check(t) \/ put_swap(t) \/ put_recheck(t) \/ put_cas(t)
        \/ put_checkTable(t) \/ put_addCount(t) \/ put_addSum(t)
        \/ remove_table(t) \/ remove_first(t) \/ remove_check(t)
        \/ remove_value(t) \/ remove_cas(t)
        \/ remove_checkTable(t) \/ remove_subCount(t) \/ remove_subSum(t)
        \/ WPutSteps(t) \/ WRemoveSteps(t)

SpecIsEmpty == InitIsEmpty /\ [][NextIsEmpty]_vars

\* C14: an IsEmpty call returns true exactly when the map's total counter
\* is zero at the moment the call reads it.
C14_IsEmptyIffZero ==
    [][\A t \in Threads :
          (pc[t] = "isEmpty_read" /\ pc'[t] = "idle") =>
              (hist'[t][Len(hist'[t])].ret = (mapCount = 0))]_vars

(***************************************************************************)
(* SpecIterate: a map of either variant with one segment of capacity 1.    *)
(* Thread 1 puts key 1 before any other call starts, may remove key 2,     *)
(* then creates an iterator and drives it: HasNext, and NextEntry while    *)
(* HasNext has returned true.  Thread 2 puts keys 2 and 3 and removes key  *)
(* 2; its insertions rehash the segment.                                   *)
(***************************************************************************)
IterOps == 10

RequestsIterate(t) ==
    LET h == hist[1]
    IN IF Len(h) = 0 THEN (IF t = 1 THEN {Put(1, 1)} ELSE {})
       ELSE IF t # 1 THEN {Put(2, 1), Put(3, 1), Remove(2)}
       ELSE LET last == h[Len(h)]
            IN CASE last.op = "Put" -> {Iterator, Remove(2)}
                 [] last.op = "Remove" -> {Iterator}
                 [] last.op \in {"Iterator", "NextEntry"} -> {HasNext}
                 [] last.op = "HasNext" -> IF last.ret THEN {NextEntry} ELSE {}

InitIterate ==
    /\ \E kind \in {"cm", "wl"} : newMap3(kind, 1, DEFAULT_LOAD_FACTOR, 1)
    /\ budget = [t \in Threads |-> IF t = 1 THEN IterOps ELSE MaxOps]

NextIterate ==
    \E t \in Threads :
        \/ Begin(t, RequestsIterate(t)) \/ IteratorSteps(t)
        \/ PutSteps(t) \/ RehashSteps(t)
        \/ remove_table(t) \/ remove_first(t) \/ remove_check(t) \/ remove_reload(t)
        \/ remove_value(t) \/ remove_cas(t)
        \/ remove_checkTable(t) \/ remove_subCount(t) \/ remove_subSum(t)
        \/ WPutSteps(t) \/ w_rehash(t) \/ WRemoveSteps(t)

SpecIterate == InitIterate /\ [][NextIterate]_vars

\* The calls of NextEntry that returned an entry of key k.
ReturnedBy(k) ==
    {id \in Completed : /\ H(id).op = "NextEntry"
                        /\ H(id).ret \notin Panics
                        /\ heap[H(id).ret].key = k}

\* HasNext has returned false: the iteration has ended.
IterationEnded ==
    \E id \in Completed : H(id).op = "HasNext" /\ H(id).ret = FALSE

\* A Put of key k had returned when Iterator(), running or completed, was
\* called.
PutBeforeIterator(k) ==
    \E t \in Threads :
        LET isPut(w) == H(w).op = "Put" /\ H(w).key = k
        IN \/ loc[t].op = "Iterator" /\ \E w \in loc[t].before : isPut(w)
           \/ \E n \in 1..Len(hist[t]) :
                 hist[t][n].op = "Iterator" /\ \E w \in hist[t][n].before : isPut(w)

\* Key k has a mapping from before the iterator was created on: a Put of k
\* had returned when Iterator() was called and no call has been made to
\* remove k.
MappedThroughout(k) ==
    /\ PutBeforeIterator(k)
    /\ \A id \in Completed : H(id).key = k => H(id).op = "Put"
    /\ \A t \in Threads : loc[t].key = k => loc[t].op = "Put"

\* Such a key is mapped in every state from the call of Iterator() on.
StableKeysStayMapped ==
    \A k \in Keys : MappedThroughout(k) => valueOf(k) # Nil

\* C15: when the iteration has ended, every key mapped from before the
\* iterator was created has been returned by exactly one NextEntry call.
C15_StableKeysVisitedOnce ==
    IterationEnded =>
        \A k \in Keys : MappedThroughout(k) => Cardinality(ReturnedBy(k)) = 1

(***************************************************************************)
(* SpecIterateWriters: a map of either variant with one segment of         *)
(* capacity 1.  Thread 1 puts key 1, creates an iterator and drives it.    *)
(* Thread 2 puts keys 2 and 3, removes key 1 and clears the map; its       *)
(* insertions rehash the segment.                                          *)
(***************************************************************************)
RequestsIterateWriters(t) ==
    IF t # 1 THEN {Put(2, 1), Put(3, 1), Remove(1), Clear}
    ELSE LET h == hist[1]
         IN IF Len(h) = 0 THEN {Put(1, 1)}
            ELSE LET last == h[Len(h)]
                 IN CASE last.op = "Put" -> {Iterator}
                      [] last.op \in {"Iterator", "NextEntry"} -> {HasNext}
                      [] last.op = "HasNext" -> IF last.ret THEN {NextEntry} ELSE {}

InitIterateWriters ==
    /\ \E kind \in {"cm", "wl"} : newMap3(kind, 1, DEFAULT_LOAD_FACTOR, 1)
    /\ budget = [t \in Threads |-> IF t = 1 THEN IterOps ELSE MaxOps]

NextIterateWriters ==
    \E t \in Threads :
        \/ Begin(t, RequestsIterateWriters(t)) \/ IteratorSteps(t)
        \/ PutSteps(t) \/ RehashSteps(t) \/ ClearSteps(t)
        \/ remove_table(t) \/ remove_first(t) \/ remove_check(t) \/ remove_reload(t)
        \/ remove_value(t) \/ remove_clone(t) \/ remove_cas(t)
        \/ remove_checkTable(t) \/ remove_subCount(t) \/ remove_subSum(t)
        \/ WPutSteps(t) \/ w_rehash(t) \/ WRemoveSteps(t) \/ WClearSteps(t)

SpecIterateWriters == InitIterateWriters /\ [][NextIterateWriters]_vars

\* The call thread t made just before its n-th call was a HasNext that
\* returned true.
AfterHasNext(t, n) ==
    n > 1 /\ hist[t][n - 1].op = "HasNext" /\ hist[t][n - 1].ret = TRUE

\* C16: a NextEntry called after HasNext has returned true returns an
\* entry, and neither it nor the creation of the iterator ends in a panic
\* or indexes outside the captured bucket array.
C16_IterationNeverFails ==
    \A t \in Threads : \A n \in 1..Len(hist[t]) :
        /\ (hist[t][n].op = "NextEntry" /\ AfterHasNext(t, n)) =>
               hist[t][n].ret \in 1..Len(heap)
        /\ hist[t][n].op = "Iterator" => hist[t][n].ret \notin Panics

\* A NextEntry has returned an entry after a Clear that ran, from its call
\* to its return, after the iterator was created.
C16_Witness ==
    \E i \in Completed : \E c \in Completed : \E g \in Completed :
        /\ H(i).op = "Iterator" /\ H(c).op = "Clear" /\ H(g).op = "NextEntry"
        /\ Precedes(i, c) /\ Precedes(c, g)
        /\ H(g).ret \in 1..Len(heap)

(***************************************************************************)
(* SpecIteratorErrors: a map of either variant with one segment of         *)
(* capacity 4.  One thread makes up to IteratorOps calls: it puts keys 1   *)
(* and 3, creates the iterator once, and calls HasNext, NextEntry and the  *)
(* iterator's Remove in any order.                                         *)
(***************************************************************************)
IteratorOps == 5

InitIteratorErrors ==
    /\ \E kind \in {"cm", "wl"} : newMap3(kind, 4, DEFAULT_LOAD_FACTOR, 1)
    /\ budget = [t \in Threads |-> IF t = 1 THEN IteratorOps ELSE 0]

NextIteratorErrors ==
    \E t \in Threads :
        \/ Begin(t, {Put(1, 1), Put(3, 1)})
        \/ (iter.cm = "none" /\ Begin(t, {Iterator}))
        \/ BeginIterator(t, {HasNext, NextEntry, IteratorRemove})
        \/ IteratorSteps(t) \/ iteratorRemove_check(t) \/ iteratorRemove_clear(t)
        \/ put_count(t) \/ put_threshold(t) \/ put_table(t) \/ put_first(t)
        \/ put_check(t) \/ put_swap(t) \/ put_recheck(t) \/ put_cas(t)
        \/ put_checkTable(t) \/ put_addCount(t) \/ put_addSum(t)
        \/ remove_table(t) \/ remove_first(t) \/ remove_check(t)
        \/ remove_value(t) \/ remove_cas(t)
        \/ remove_checkTable(t) \/ remove_subCount(t) \/ remove_subSum(t)
        \/ WPutSteps(t) \/ WRemoveSteps(t)

SpecIteratorErrors == InitIteratorErrors /\ [][NextIteratorErrors]_vars

\* The largest number of the set S of call numbers, 0 when S is empty.
LastOf(S) == IF S = {} THEN 0 ELSE CHOOSE n \in S : \A m \in S : m <= n

\* Thread t has been returned no entry since the iterator was created or
\* since its last call of the iterator's Remove.
NoEntrySince(t) ==
    LET h == hist[t]
        entries == {n \in 1..Len(h) : h[n].op = "NextEntry" /\ h[n].ret \notin Panics}
        resets  == {n \in 1..Len(h) : h[n].op \in {"Iterator", "IteratorRemove"}}
    IN LastOf(entries) < LastOf(resets)

\* Thread t returns from its call in this step, with the panic p, and the
\* map is as it was.
PanicsWith(t, p) ==
    /\ pc'[t] = "idle"
    /\ hist'[t][Len(hist'[t])].ret = p
    /\ UNCHANGED <<mapCount, segments, tables, heap>>

\* C17: NextEntry panics with NoSuchElementException exactly when the
\* iterator has no next entry, the iterator's Remove panics with
\* IllegalStateException exactly when no entry has been returned since the
\* iterator was created or since the last Remove; both leave the map as it
\* was.
C17_IteratorErrors ==
    [][\A t \in Threads :
          /\ (pc[t] = "nextEntry_check" /\ pc'[t] # pc[t]) =>
                IF iter.nextEntry = Nil THEN PanicsWith(t, NoSuchElementException)
                ELSE pc'[t] # "idle"
          /\ (pc[t] = "iteratorRemove_check" /\ pc'[t] # pc[t]) =>
                IF NoEntrySince(t) THEN PanicsWith(t, IllegalStateException)
                ELSE pc'[t] # "idle"]_vars

\* With key 1 mapped, the iterator's Remove has panicked before any entry
\* was returned and a later NextEntry has panicked at the end of the
\* iteration.
C17_Witness ==
    /\ valueOf(1) # Nil
    /\ \E r \in Completed : \E g \in Completed :
          /\ H(r).op = "IteratorRemove" /\ H(r).ret = IllegalStateException
          /\ H(g).op = "NextEntry" /\ H(g).ret = NoSuchElementException
          /\ Precedes(r, g)

(***************************************************************************)
(* SpecNilArguments: a map of either variant with one segment of capacity  *)
(* 1.  Thread 1 calls every operation with a nil key, a nil value, or      *)
(* both; thread 2 puts keys 1 and 2 meanwhile.                             *)
(***************************************************************************)
RequestsNilArguments(t) ==
    IF t = 2 THEN {Put(1, 1), Put(2, 1)}
    ELSE {Get(Nil), ContainsKey(Nil), Remove(Nil),
          Put(Nil, 1), Put(1, Nil), Put(Nil, Nil),
          PutIfAbsent(Nil, 1), PutIfAbsent(1, Nil),
          RemoveEntry(Nil, 1), RemoveEntry(1, Nil),
          Replace(Nil, 1), Replace(1, Nil),
          CompareAndReplace(Nil, 1, 1), CompareAndReplace(1, Nil, 1),
          CompareAndReplace(1, 1, Nil), CompareAndReplace(Nil, Nil, Nil)}

InitNilArguments ==
    /\ \E kind \in {"cm", "wl"} : newMap3(kind, 1, DEFAULT_LOAD_FACTOR, 1)
    /\ budget = [t \in Threads |-> MaxOps]

NextNilArguments ==
    \E t \in Threads :
        \/ Begin(t, RequestsNilArguments(t)) \/ argumentError_return(t)
        \/ put_count(t) \/ put_threshold(t) \/ put_table(t) \/ put_first(t)
        \/ put_check(t) \/ put_swap(t) \/ put_recheck(t) \/ put_cas(t)
        \/ put_checkTable(t) \/ put_addCount(t) \/ put_addSum(t)
        \/ rehash_lock(t) \/ rehash_unlock(t) \/ rehash_count(t)
        \/ rehash_threshold(t) \/ rehash_table(t) \/ rehash_bucket(t)
        \/ rehash_publish(t) \/ rehash_storeThreshold(t)
        \/ WPutSteps(t) \/ w_rehash(t)

SpecNilArguments == InitNilArguments /\ [][NextNilArguments]_vars

KeyOps ==
    {"Get", "ContainsKey", "Put", "PutIfAbsent", "Remove", "RemoveEntry", "Replace",
     "CompareAndReplace"}
ValueOps == {"Put", "PutIfAbsent", "RemoveEntry", "Replace", "CompareAndReplace"}

\* The call c passes a nil key; it passes a key and a nil value.
NilKeyCall(c) == c.op \in KeyOps /\ c.key = Nil
NilValueCall(c) ==
    /\ c.op \in ValueOps /\ c.key # Nil
    /\ (c.value = Nil \/ (c.op = "CompareAndReplace" /\ c.old = Nil))

\* C20: the first step of a call with a nil key returns NilKeyError, the
\* first step of a call with a key and a nil value returns NilValueError,
\* and the step leaves the total counter, the segments with their counts,
\* the tables and the entries as they were.
C20_NilArguments ==
    [][\A t \in Threads :
          (/\ pc[t] # "idle" /\ pc'[t] # pc[t]
           /\ (NilKeyCall(loc[t]) \/ NilValueCall(loc[t]))) =>
             /\ pc'[t] = "idle"
             /\ Returned(t) = IF NilKeyCall(loc[t]) THEN NilKeyError ELSE NilValueError
             /\ UNCHANGED <<mapCount, segments, tables, heap>>]_vars

\* With key 1 mapped, a Put(1, nil) has returned NilValueError and a call
\* with a nil key has returned NilKeyError.
C20_Witness ==
    /\ valueOf(1) = 1
    /\ \E a \in Completed : \E b \in Completed :
          /\ H(a).op = "Put" /\ H(a).key = 1 /\ H(a).value = Nil
          /\ H(a).ret = NilValueError
          /\ NilKeyCall(H(b)) /\ H(b).ret = NilKeyError

(***************************************************************************)
(* SpecConstruct: the constructor of either variant is called with an      *)
(* initial capacity, a load factor and a concurrency level drawn from the  *)
(* sets below, which hold negative, zero and positive values and NaN.  It  *)
(* panics or returns a map; on a map thread 1 then puts keys 1, 2 and 3.   *)
(***************************************************************************)
Capacities == {-1, 0, 1, 3}
LoadFactors == {DEFAULT_LOAD_FACTOR, <<0, 1>>, <<-1, 2>>, <<1, 1>>, NaN}
ConcurrencyLevels == {-1, 0, 1, 2, 3}

InitConstruct ==
    /\ \E kind \in {"cm", "wl"} : \E ic \in Capacities : \E lf \in LoadFactors :
          \E cl \in ConcurrencyLevels :
             newMap3(kind, ic, lf, cl) \/ newMap3Panics(kind, ic, lf, cl)
    /\ budget = [t \in Threads |-> IF t = 1 THEN MaxOps ELSE 0]

NextConstruct ==
    \E t \in Threads :
        \/ (construction.panic = Nil /\ Begin(t, {Put(1, 1), Put(2, 1), Put(3, 1)}))
        \/ put_count(t) \/ put_threshold(t) \/ put_table(t) \/ put_first(t)
        \/ put_check(t) \/ put_swap(t) \/ put_recheck(t) \/ put_cas(t)
        \/ put_checkTable(t) \/ put_addCount(t) \/ put_addSum(t)
        \/ rehash_lock(t) \/ rehash_unlock(t) \/ rehash_count(t)
        \/ rehash_threshold(t) \/ rehash_table(t) \/ rehash_bucket(t)
        \/ rehash_publish(t) \/ rehash_storeThreshold(t)
        \/ WPutSteps(t) \/ w_rehash(t)

SpecConstruct == InitConstruct /\ [][NextConstruct]_vars

\* The map is as the constructor returned it.
JustConstructed ==
    heap = <<>> /\ \A t \in Threads : pc[t] = "idle" /\ hist[t] = <<>>

\* With initialCapacity = 0 the map starts with tables of length 1, maps
\* every key a Put has returned for, and a segment whose table still has
\* length 1 holds at most one entry more than the threshold of that length.
ZeroCapacityWorks ==
    (construction.panic = Nil /\ construction.initialCapacity = 0) =>
        /\ JustConstructed =>
              \A n \in 1..Len(segments) : Len(tables[segments[n].pTable]) = 1
        /\ \A id \in Completed : valueOf(H(id).key) = H(id).value
        /\ \A n \in 1..Len(segments) :
              Len(tables[segments[n].pTable]) = 1 =>
                 segments[n].count <= thresholdOf(1, construction.loadFactor) + 1

\* The statement as given: the constructor panics with IllegalArgError
\* exactly when loadFactor <= 0, initialCapacity < 0 or concurrencyLevel
\* <= 0.
C21_ConstructorAsStated ==
    LET lf == construction.loadFactor
    IN /\ (construction.panic = IllegalArgError) <=>
             \/ (lf # NaN /\ lf[1] <= 0)
             \/ construction.initialCapacity < 0
             \/ construction.concurrencyLevel <= 0
       /\ ZeroCapacityWorks

\* C21: the constructor panics with IllegalArgError exactly when
\* loadFactor is not greater than 0 (it is <= 0 or NaN), initialCapacity <
\* 0 or concurrencyLevel <= 0; with initialCapacity = 0 every segment
\* starts with a table of length 1, and the map accepts Puts and grows.
C21_Constructor ==
    LET lf == construction.loadFactor
    IN /\ (construction.panic = IllegalArgError) <=>
             \/ lf = NaN \/ lf[1] <= 0
             \/ construction.initialCapacity < 0
             \/ construction.concurrencyLevel <= 0
       /\ ZeroCapacityWorks

\* A map constructed with initialCapacity = 0 holds two keys in a table
\* that has grown.
C21_Witness ==
    /\ construction.panic = Nil /\ construction.initialCapacity = 0
    /\ \A t \in Threads : pc[t] = "idle"
    /\ valueOf(1) = 1 /\ valueOf(2) = 1
    /\ Len(tables[Seg(0).pTable]) > 1

(***************************************************************************)
(* SpecWProgress: WLockingMap with four segments of capacity 1.  Thread 1  *)
(* puts key 1 (segment 0) and key 4 (segment 1), puts both with one        *)
(* PutAll, which takes the two locks one after the other, and clears the   *)
(* map; the other threads put key 3 (segment 0, so that a put rehashes     *)
(* under the lock), remove key 1 and read it.  sync.Mutex hands the lock   *)
(* to a waiter, and the Go scheduler runs every goroutine that can run:    *)
(* each thread's steps are weakly fair.                                    *)
(***************************************************************************)
RequestsWProgress(t) ==
    IF t = 1 THEN {Put(1, 1), Put(4, 1), Clear, PutAll(GoMap({<<1, 2>>, <<4, 2>>}))}
    ELSE {Put(3, 1), Remove(1), Get(1)}

InitWProgress ==
    /\ newMap3("wl", 4, DEFAULT_LOAD_FACTOR, 4)
    /\ budget = [t \in Threads |-> MaxOps]

WProgressSteps(t) ==
    \/ w_get_count(t) \/ w_get_table(t) \/ w_get_first(t) \/ w_get_value(t)
    \/ WPutSteps(t) \/ w_rehash(t) \/ WRemoveSteps(t) \/ WClearSteps(t)
    \/ PutAllSteps(t)

NextWProgress ==
    \E t \in Threads : Begin(t, RequestsWProgress(t)) \/ WProgressSteps(t)

SpecWProgress ==
    /\ InitWProgress /\ [][NextWProgress]_vars
    /\ \A t \in Threads : WF_vars(WProgressSteps(t))

\* The segments whose lock thread t holds.
locksHeld(t) == {n \in 1..Len(segments) : segments[n].lock = t}

\* The labels at which a thread is about to call lock.Lock().
LockLabels ==
    {"w_put_lock", "w_remove_lock", "w_replace_lock", "w_replaceWithOld_lock",
     "clear_lock", "readValueUnderLock"}

\* A thread holds at most one segment lock, none when it is about to
\* acquire one and none between calls, and the rehash inside put runs with
\* the lock of its segment held.
LockDiscipline ==
    \A t \in Threads :
        /\ Cardinality(locksHeld(t)) <= 1
        /\ pc[t] \in LockLabels \cup {"idle", "putAll_check", "putAll_range"} =>
              locksHeld(t) = {}
        /\ pc[t] = "w_rehash" => locksHeld(t) = {loc[t].seg + 1}

\* C22: in WLockingMap every invoked operation returns under fair
\* scheduling; an operation holds at most one segment lock, never acquires
\* a lock it holds (put calls rehash while holding it) and has released it
\* when it returns, so no state is reached in which the running calls wait
\* for each other forever.
C22_WLockingCompletes ==
    /\ []LockDiscipline
    /\ \A t \in Threads : (pc[t] # "idle") ~> (pc[t] = "idle")

\* A put rehashes with the lock of segment 0 held while another thread
\* waits for that lock, and an earlier call has returned.
C22_Witness ==
    /\ \E t \in Threads : \E u \in Threads :
          /\ pc[t] = "w_rehash" /\ locksHeld(t) = {1}
          /\ pc[u] \in LockLabels /\ loc[u].seg = 0
    /\ Completed # {}

(***************************************************************************)
(* Entries.  An Entry is created whole and linked by storing it, or a      *)
(* clone of it, into a slot; the claims below are checked on SpecChains.   *)
(***************************************************************************)
\* The entries on the chain that starts at entry e of heap hp, in order.
RECURSIVE chainSeq(_, _)
chainSeq(hp, e) == IF e = Nil THEN <<>> ELSE <<e>> \o chainSeq(hp, hp[e].next)

\* The entries reachable from a slot of a bucket array, the current tables,
\* the replaced ones that readers may still hold and those being built.
linkedEntries ==
    UNION {UNION {chain(tables[n][i]) : i \in 1..Len(tables[n])} : n \in 1..Len(tables)}

\* The step leaves key, hash and next of every linked entry as they were.
FieldsKept ==
    \A e \in linkedEntries :
        /\ e <= Len(heap')
        /\ heap'[e].key = heap[e].key
        /\ heap'[e].hash = heap[e].hash
        /\ heap'[e].next = heap[e].next

\* A slot whose chain differs after the step has a new head, and the
\* entries of the new chain are those that existed, unchanged, or entries
\* the step has created.
ChainsChangeByNewHeads ==
    /\ Len(tables') >= Len(tables) /\ Len(heap') >= Len(heap)
    /\ \A n \in 1..Len(tables) : \A i \in 1..Len(tables[n]) :
          chainSeq(heap', tables'[n][i]) # chainSeq(heap, tables[n][i]) =>
             tables'[n][i] # tables[n][i]

\* C23: in both variants key, hash and next of an Entry reachable from a
\* slot of a bucket array never change; Put, Remove, Clear and rehash
\* change a chain only by creating entries and storing a new head.
C23_EntriesImmutable == [][FieldsKept /\ ChainsChangeByNewHeads]_vars

\* A rehash has cloned an entry and a Remove has returned the value it
\* removed: the heap holds more entries than the tables link.
C23_Witness ==
    /\ Len(tables[Seg(0).pTable]) > 1
    /\ \E e \in 1..Len(heap) : e \notin linkedEntries
    /\ \E id \in Completed : H(id).op = "Remove" /\ H(id).ret # Nil

(***************************************************************************)
(* SpecUnlink: a map of either variant with one segment of capacity 1 and  *)
(* load factor 3, so that keys 1, 2 and 3 share the only bucket and no put *)
(* rehashes.  Thread 1 puts the keys, and key 2 a second time; the other   *)
(* threads remove them.                                                    *)
(***************************************************************************)
UnlinkOps == 3

RequestsUnlink(t) ==
    IF t = 1 THEN {Put(1, 1), Put(2, 1), Put(3, 1), Put(2, 2)}
    ELSE {Remove(1), Remove(3), RemoveEntry(2, 1)}

InitUnlink ==
    /\ \E kind \in {"cm", "wl"} : newMap3(kind, 1, <<3, 1>>, 1)
    /\ budget = [t \in Threads |-> IF t = 1 THEN UnlinkOps ELSE MaxOps]

NextUnlink ==
    \E t \in Threads :
        \/ Begin(t, RequestsUnlink(t))
        \/ PutSteps(t) \/ RemoveSteps(t) \/ WPutSteps(t) \/ WRemoveSteps(t)

SpecUnlink == InitUnlink /\ [][NextUnlink]_vars

\* Thread t's step stores the head of the chain from which it removes
\* loc[t].e: the CompareAndSwapPointer of Segment.remove succeeds, or
\* wLockingSegment.remove assigns tab[index].
Unlinking(t) ==
    \/ pc[t] = "remove_cas" /\ pc'[t] = "remove_checkTable"
    \/ pc[t] = "w_remove_store" /\ pc'[t] = "w_remove_count"

\* The position of entry e in the sequence of entries sq.
positionIn(sq, e) == CHOOSE k \in 1..Len(sq) : sq[k] = e

\* A call that may store a value for key k is running.
Storing(k) ==
    \E u \in Threads :
        /\ pc[u] # "idle" /\ loc[u].key = k
        /\ loc[u].op \in {"Put", "PutIfAbsent", "Replace", "CompareAndReplace"}

\* Entry c of heap hp2 is a clone of entry p of heap hp1: it has p's key and
\* hash, and p's value unless a call that stores a value for the key is
\* still running (such a call looks at the head again after its store).
cloneOf(hp2, c, hp1, p) ==
    /\ hp2[c].key = hp1[p].key /\ hp2[c].hash = hp1[p].hash
    /\ (hp2[c].value = hp1[p].value \/ Storing(hp1[p].key))

\* The chain new, read after the step, is the chain old with the entry at
\* position k removed: a fresh clone of each entry before k, then the
\* entries after k themselves.
UnlinkedChain(old, new, k) ==
    /\ Len(new) = Len(old) - 1
    /\ \A j \in k..Len(new) : new[j] = old[j + 1]
    /\ \A j \in 1..(k - 1) : new[j] \notin linkedEntries
    /\ \A i \in 1..(k - 1) :
          Cardinality({j \in 1..(k - 1) : cloneOf(heap', new[j], heap, old[i])}) = 1
    /\ {heap'[new[j]].key : j \in 1..Len(new)} =
          {heap[old[j]].key : j \in 1..Len(old)} \ {heap[old[k]].key}

\* C24: when Remove or RemoveEntry removes entry e, the chain it publishes
\* holds one fresh clone, with the same key, hash and value, of each entry
\* that preceded e, followed by the entries that followed e; its keys are
\* the old ones without e's key, and the chain from the old head is as it
\* was.
C24_RemoveClonesPrefix ==
    [][\A t \in Threads :
          Unlinking(t) =>
             LET old == chainSeq(heap, loc[t].first)
                 new == chainSeq(heap', tables'[loc[t].ptable][loc[t].idx + 1])
             IN /\ UnlinkedChain(old, new, positionIn(old, loc[t].e))
                /\ chainSeq(heap', loc[t].first) = old]_vars

(***************************************************************************)
(* SpecRehash: a map of either variant with one segment of capacity 1 and  *)
(* load factor 1: the table of length 1 holds two entries when the third   *)
(* insertion doubles it, and keys 1 and 2 stay in slot 0 while key 3 moves *)
(* to slot 1.  Thread 1 puts the three keys, the other threads put key 3   *)
(* and remove key 2.                                                       *)
(***************************************************************************)
RehashOps == 3
RehashOtherOps == 1

RequestsRehash(t) ==
    IF t = 1 THEN {Put(1, 1), Put(2, 1), Put(3, 1)}
    ELSE {Put(3, 2), Remove(2)}

InitRehash ==
    /\ \E kind \in {"cm", "wl"} : newMap3(kind, 1, <<1, 1>>, 1)
    /\ budget = [t \in Threads |-> IF t = 1 THEN RehashOps ELSE RehashOtherOps]

NextRehash ==
    \E t \in Threads :
        \/ Begin(t, RequestsRehash(t))
        \/ PutSteps(t) \/ RehashSteps(t)
        \/ remove_table(t) \/ remove_first(t) \/ remove_check(t) \/ remove_reload(t)
        \/ remove_value(t) \/ remove_clone(t) \/ remove_cas(t)
        \/ remove_checkTable(t) \/ remove_subCount(t) \/ remove_subSum(t)
        \/ WPutSteps(t) \/ w_rehash(t) \/ WRemoveSteps(t)

SpecRehash == InitRehash /\ [][NextRehash]_vars

elementsOf(sq) == {sq[j] : j \in 1..Len(sq)}

\* In heap hp the slots i and i + oldLen of the table nt hold what the
\* chain that starts at e held: as many entries, the same keys, each once,
\* every entry either an entry of the chain or a fresh entry with the key
\* and hash of one, and every entry in the slot hash & (2 * oldLen - 1).
SplitOf(hp, e, nt, i, oldLen) ==
    LET old == chainSeq(hp, e)
        lo  == chainSeq(hp, nt[i + 1])
        hi  == chainSeq(hp, nt[i + oldLen + 1])
        new == lo \o hi
    IN /\ Len(new) = Len(old)
       /\ {hp[x].key : x \in elementsOf(new)} = {hp[x].key : x \in elementsOf(old)}
       /\ Cardinality({hp[x].key : x \in elementsOf(new)}) = Len(new)
       /\ \A x \in elementsOf(new) :
             \E y \in elementsOf(old) :
                 /\ hp[x].key = hp[y].key /\ hp[x].hash = hp[y].hash
                 /\ (x = y \/ hp[x].value = hp[y].value \/ Storing(hp[y].key))
       /\ \A x \in elementsOf(lo) : BitAnd(hp[x].hash, 2 * oldLen - 1) = i
       /\ \A x \in elementsOf(hi) : BitAnd(hp[x].hash, 2 * oldLen - 1) = i + oldLen

\* Thread t's step of Segment.rehash finishes bucket i of the old table,
\* whose head it read into e.
BucketDone(t) ==
    /\ pc[t] \in {"rehash_bucket", "rehash_clone"}
    /\ loc'[t].i = loc[t].i + 1

bucketHead(t) ==
    IF pc[t] = "rehash_bucket" THEN Slot(loc[t].oldTable, loc[t].i) ELSE loc[t].e

\* The table a rehash step of thread t reads.
oldTableOf(t) ==
    IF loc[t].oldTable # 0 THEN loc[t].oldTable ELSE Seg(loc[t].seg).pTable

RehashLabels ==
    {"rehash_lock", "rehash_unlock", "rehash_count", "rehash_threshold",
     "rehash_table", "rehash_bucket", "rehash_clone", "rehash_publish",
     "rehash_storeThreshold", "w_rehash"}

\* Every entry of table tb is in the slot its hash selects.
WellPlaced(hp, tb) ==
    \A j \in 1..Len(tb) :
        \A x \in elementsOf(chainSeq(hp, tb[j])) : BitAnd(hp[x].hash, Len(tb) - 1) = j - 1

\* A step of Segment.rehash by thread t.
RehashPreserves(t) ==
    /\ BucketDone(t) =>
          LET nt == tables'[loc[t].newTable]
              n  == Len(tables[loc[t].oldTable])
          IN IF bucketHead(t) = Nil
             THEN nt[loc[t].i + 1] = Nil /\ nt[loc[t].i + n + 1] = Nil
             ELSE SplitOf(heap', bucketHead(t), nt, loc[t].i, n)
    /\ (pc[t] = "rehash_clone" /\ loc'[t] # loc[t]) =>
          /\ Len(heap') = Len(heap) + 1
          /\ cloneOf(heap', Len(heap'), heap, loc[t].p)
          /\ heap'[Len(heap')].value = heap[loc[t].p].value
    /\ (pc[t] = "rehash_publish" /\ pc'[t] # pc[t]) =>
          /\ segments'[loc[t].seg + 1].pTable = loc[t].newTable
          /\ tables' = tables
          /\ WellPlaced(heap, tables[loc[t].newTable])

\* The step of wLockingSegment.rehash by thread t, when it replaces the
\* table.
WRehashPreserves(t) ==
    LET old == tables[Seg(loc[t].seg).pTable]
        nt  == tables'[segments'[loc[t].seg + 1].pTable]
    IN (pc[t] = "w_rehash" /\ segments'[loc[t].seg + 1].pTable # Seg(loc[t].seg).pTable) =>
          /\ Len(nt) = 2 * Len(old)
          /\ WellPlaced(heap', nt)
          /\ \A i \in 0..(Len(old) - 1) :
                IF old[i + 1] = Nil
                THEN nt[i + 1] = Nil /\ nt[i + Len(old) + 1] = Nil
                ELSE /\ SplitOf(heap', old[i + 1], nt, i, Len(old))
                     /\ {<<heap'[x].key, heap'[x].value>> :
                            x \in elementsOf(chainSeq(heap', nt[i + 1])) \cup
                                  elementsOf(chainSeq(heap', nt[i + Len(old) + 1]))} =
                        {<<heap[x].key, heap[x].value>> :
                            x \in elementsOf(chainSeq(heap, old[i + 1]))}

\* C25: a rehash preserves the contents of the segment: the table it
\* publishes holds, for each bucket of the old table, the keys of the chain
\* rehash read there, each once, with the values rehash read from the
\* entries, every entry in slot hash & (newLen - 1), which is the old index
\* i or i + oldLen; and no step of rehash writes a slot of the old table.
C25_RehashPreserves ==
    [][\A t \in Threads :
          /\ RehashPreserves(t)
          /\ WRehashPreserves(t)
          /\ (pc[t] \in RehashLabels /\ pc'[t] # pc[t]) =>
                tables'[oldTableOf(t)] = tables[oldTableOf(t)]]_vars

\* A rehash has published a table of length 2 that holds keys 1 and 2 in
\* slot 0 and key 3 in slot 1, one of the entries a clone of an entry of
\* the first table.
C25_Witness ==
    LET nt == tables[Seg(0).pTable]
    IN /\ Len(nt) = 2
       /\ {heap[x].key : x \in chain(nt[1])} = {1, 2}
       /\ {heap[x].key : x \in chain(nt[2])} = {3}
       /\ \E x \in chain(nt[1]) \cup chain(nt[2]) : x \notin chain(tables[1][1])

(***************************************************************************)
(* Table lengths, checked on SpecChains.                                   *)
(***************************************************************************)
RECURSIVE isPowerOfTwo(_)
isPowerOfTwo(n) == n = 1 \/ (n > 1 /\ n % 2 = 0 /\ isPowerOfTwo(n \div 2))

\* The length of the current table of segment number n, now and after the
\* step.
tableLen(n) == Len(tables[segments[n].pTable])
tableLenAfter(n) == Len(tables'[segments'[n].pTable])

\* C26: in both variants the length of a segment's current table is always
\* a power of two, and every step that changes the table pointer replaces
\* a table of length n < MAXIMUM_CAPACITY by one of length 2n, also when
\* several threads put into the segment at once.
C26_TableDoubles ==
    [][\A n \in 1..Len(segments) :
          /\ isPowerOfTwo(tableLen(n)) /\ isPowerOfTwo(tableLenAfter(n))
          /\ segments'[n].pTable # segments[n].pTable =>
                /\ tableLenAfter(n) = 2 * tableLen(n)
                /\ tableLen(n) < MAXIMUM_CAPACITY]_vars

(***************************************************************************)
(* SpecThreshold: one segment of capacity 1, with the default load factor  *)
(* (thresholds 0, 1 and 3 for the lengths 1, 2 and 4), with load factor    *)
(* 0.5 (thresholds 0, 1, 2) or with load factor 0.25 (thresholds 0, 0, 1). *)
(* On a ConcurrentMap thread 1 alone makes its calls one after another; on *)
(* a WLockingMap the other threads put too.                                *)
(***************************************************************************)
ThresholdLoadFactors == {DEFAULT_LOAD_FACTOR, <<1, 2>>, <<1, 4>>}

RequestsThreshold(t) ==
    IF t = 1 THEN {Put(1, 1), Put(2, 1), PutIfAbsent(3, 1), Remove(1)}
    ELSE {Put(3, 2), PutIfAbsent(2, 2)}

InitThreshold ==
    /\ \E kind \in {"cm", "wl"} : \E lf \in ThresholdLoadFactors :
          newMap3(kind, 1, lf, 1)
    /\ budget = [t \in Threads |->
                    IF t = 1 THEN SeqOps
                    ELSE IF variant = "wl" THEN RehashOtherOps ELSE 0]

NextThreshold ==
    \E t \in Threads :
        \/ Begin(t, RequestsThreshold(t))
        \/ put_count(t) \/ put_threshold(t) \/ put_table(t) \/ put_first(t)
        \/ put_check(t) \/ put_swap(t) \/ put_recheck(t) \/ put_cas(t)
        \/ put_checkTable(t) \/ put_addCount(t) \/ put_addSum(t) \/ RehashSteps(t)
        \/ remove_table(t) \/ remove_first(t) \/ remove_check(t) \/ remove_value(t)
        \/ remove_clone(t) \/ remove_cas(t) \/ remove_checkTable(t)
        \/ remove_subCount(t) \/ remove_subSum(t)
        \/ WPutSteps(t) \/ w_rehash(t) \/ WRemoveSteps(t)

SpecThreshold == InitThreshold /\ [][NextThreshold]_vars

\* Thread t's step is the comparison of the count with the threshold at
\* the start of put; the step enters rehash.
ChecksCapacity(t) == pc[t] \in {"put_threshold", "w_put_check"} /\ pc'[t] # pc[t]
EntersRehash(t) == pc'[t] \in {"rehash_lock", "w_rehash"}

\* Thread t's step links a new entry.
Inserts(t) ==
    \/ pc[t] = "put_cas" /\ pc'[t] = "put_checkTable"
    \/ pc[t] = "w_put_store" /\ pc'[t] = "w_put_count"

\* The entry goes into the segment's current table, whose threshold the
\* count before the insertion does not exceed.
InsertsIntoGrownTable(t) ==
    Inserts(t) =>
       /\ loc[t].ptable = Seg(loc[t].seg).pTable
       /\ Seg(loc[t].seg).count <= Seg(loc[t].seg).threshold

RECURSIVE log2(_)
log2(n) == IF n <= 1 THEN 0 ELSE 1 + log2(n \div 2)
doublings(n) ==
    log2(tableLen(n) \div segmentCapacity(construction.initialCapacity, Len(segments)))

\* The load factor is at least 0.5: doubling a table whose threshold the
\* count exceeds by one raises the threshold to the count or above.
HalfOrMore == 2 * construction.loadFactor[1] >= construction.loadFactor[2]

\* The entry goes into the segment's current table, and with a load factor
\* of at least 0.5 the count before the insertion does not exceed the
\* threshold of that table.
InsertsIntoCurrentTable(t) ==
    Inserts(t) =>
       /\ loc[t].ptable = Seg(loc[t].seg).pTable
       /\ HalfOrMore => Seg(loc[t].seg).count <= Seg(loc[t].seg).threshold

\* A new table has twice the length of the one it replaces, and between
\* calls the threshold is floor(tableLen x loadFactor).
GrowsByDoubling ==
    \A n \in 1..Len(segments) :
        /\ segments'[n].pTable # segments[n].pTable =>
              tableLenAfter(n) = 2 * tableLen(n)
        /\ AllIdle' =>
              segments'[n].threshold = thresholdOf(tableLenAfter(n), segments'[n].loadFactor)

\* After every step the count exceeds the threshold by at most one and the
\* number of doublings made; by at most one when the load factor is 0.5 or
\* more.
CountWithinThreshold ==
    \A n \in 1..Len(segments) :
        /\ segments'[n].count <= segments'[n].threshold + 1 + doublings(n)'
        /\ HalfOrMore => segments'[n].count <= segments'[n].threshold + 1

SmallLoadFactorStaysAbove ==
    /\ AllIdle
    /\ construction.loadFactor = <<1, 4>>
    /\ tableLen(1) = 2 /\ segments[1].count = 2 /\ segments[1].threshold = 0

(***************************************************************************)
(* Exclusion in ConcurrentMap, checked on SpecCount.                       *)
(***************************************************************************)
\* Thread t has read the old table of segment s in Segment.rehash and has
\* not yet published the table it builds.
Rebuilding(t, s) ==
    /\ pc[t] \in {"rehash_bucket", "rehash_clone", "rehash_publish"}
    /\ loc[t].seg = s

\* Thread t's step stores into a bucket slot of a table: the
\* CompareAndSwapPointer of put or remove succeeds, or clear stores nil.
WritesSlot(t) ==
    /\ pc[t] \in {"put_cas", "remove_cas", "clear_slot"}
    /\ tables'[loc[t].ptable] # tables[loc[t].ptable]

\* C28: in ConcurrentMap at most one thread at a time builds a replacement
\* table for a segment, and no Put, Remove or Clear writes a bucket slot
\* of the segment while a rehash of it is between reading the old table and
\* publishing the new one.
C28_SegmentExclusion ==
    [][\A s \in 0..(Len(segments) - 1) :
          /\ Cardinality({t \in Threads : Rebuilding(t, s)}) <= 1
          /\ \A t \in Threads : \A u \in Threads \ {t} :
                (WritesSlot(t) /\ loc[t].seg = s) => ~Rebuilding(u, s)]_vars

(***************************************************************************)
(* SpecPuts: a run with only Puts on a map of either variant with one      *)
(* segment of capacity 1.  Thread 1 puts keys 1 and 2, the other threads   *)
(* put keys 2 and 3; the second and the third insertion rehash.            *)
(***************************************************************************)
RequestsPuts(t) ==
    IF t = 1 THEN {Put(1, 1), Put(2, 1)} ELSE {Put(2, 2), Put(3, 1)}

InitPuts ==
    /\ \E kind \in {"cm", "wl"} : newMap3(kind, 1, DEFAULT_LOAD_FACTOR, 1)
    /\ budget = [t \in Threads |-> MaxOps]

NextPuts ==
    \E t \in Threads :
        \/ Begin(t, RequestsPuts(t))
        \/ PutSteps(t) \/ RehashSteps(t) \/ WPutSteps(t) \/ w_rehash(t)

SpecPuts == InitPuts /\ [][NextPuts]_vars

\* Thread t's step increments the count of its segment; the total counter.
CountsEntry(t) == pc[t] \in {"put_addCount", "w_put_count"} /\ pc'[t] # pc[t]
CountsTotal(t) == pc[t] \in {"put_addSum", "w_put_sum"} /\ pc'[t] # pc[t]

\* The steps of an inserting Put come in order: the step that stores the
\* head stores a complete entry and leaves the counters alone, the next
\* step of the thread increments the segment count, the one after it the
\* total counter.
PutStepsInOrder(t) ==
    /\ Inserts(t) =>
          /\ heap'[tables'[loc[t].ptable][loc[t].idx + 1]] =
                Entry(loc[t].key, loc[t].hash, loc[t].value, loc[t].first)
          /\ loc[t].value # Nil
          /\ UNCHANGED <<segments, mapCount>>
    /\ CountsEntry(t) =>
          /\ segments'[loc[t].seg + 1].count = Seg(loc[t].seg).count + 1
          /\ pc'[t] \in {"put_addSum", "w_put_sum"}
          /\ UNCHANGED <<tables, heap, mapCount>>
    /\ CountsTotal(t) =>
          /\ mapCount' = mapCount + 1
          /\ UNCHANGED <<tables, heap>>
    /\ (pc'[t] \in {"put_addCount", "w_put_count"} /\ pc'[t] # pc[t]) =>
          (Inserts(t) \/ (pc[t] = "put_checkTable" /\ loc[t].flag))

\* The total counter is at most the sum of the segments' counts, which is
\* at most the number of entries reachable from the current tables.
CountersLag ==
    /\ mapCount <= sumCounts(Len(segments))
    /\ sumCounts(Len(segments)) <= sumEntries(Len(segments))

\* C29: a Put that inserts a new key initializes the entry, then stores it
\* as the head of its bucket, then increments the segment count, then the
\* total counter; hence in every state of a run with only Puts the total
\* counter is at most the sum of the segment counts, which is at most the
\* number of entries reachable from the current tables.
C29_PutOrder ==
    /\ [][\A t \in Threads : PutStepsInOrder(t)]_vars
    /\ []CountersLag

(***************************************************************************)
(* SpecReaders: a map of either variant with one segment of capacity 4.    *)
(* Thread 1 puts and removes key 1 and clears the map, taking the segment  *)
(* lock where the variant does; the other threads read key 1.              *)
(***************************************************************************)
RequestsReaders(t) ==
    IF t = 1 THEN {Put(1, 1), Put(1, 2), Remove(1), Clear}
    ELSE {Get(1), ContainsKey(1)}

InitReaders ==
    /\ \E kind \in {"cm", "wl"} : newMap3(kind, 4, DEFAULT_LOAD_FACTOR, 1)
    /\ budget = [t \in Threads |-> IF t = 1 THEN WriterOps ELSE MaxOps]

ReadSteps(t) ==
    \/ get_count(t) \/ get_table(t) \/ get_first(t) \/ get_value(t)
    \/ containsKey_count(t) \/ containsKey_table(t) \/ containsKey_first(t)

NextReaders ==
    \E t \in Threads :
        \/ Begin(t, RequestsReaders(t)) \/ ReadSteps(t)
        \/ put_count(t) \/ put_threshold(t) \/ put_table(t) \/ put_first(t)
        \/ put_check(t) \/ put_swap(t) \/ put_recheck(t) \/ put_cas(t)
        \/ put_checkTable(t) \/ put_addCount(t) \/ put_addSum(t)
        \/ remove_table(t) \/ remove_first(t) \/ remove_check(t) \/ remove_value(t)
        \/ remove_cas(t) \/ remove_checkTable(t) \/ remove_subCount(t)
        \/ remove_subSum(t)
        \/ ClearSteps(t) \/ WClearSteps(t)
        \/ w_put_lock(t) \/ w_put_check(t) \/ w_put_scan(t) \/ w_put_store(t)
        \/ w_put_count(t) \/ w_put_sum(t) \/ w_unlock(t) \/ WRemoveSteps(t)

SpecReaders == InitReaders /\ [][NextReaders]_vars

\* Thread t is inside a Get or a ContainsKey.
Reading(t) == pc[t] # "idle" /\ loc[t].op \in {"Get", "ContainsKey"}

\* How far a Get or ContainsKey has come: the loads of the count, of the
\* table and of the bucket head with the walk, the load of the value, the
\* return.
readRank(label) ==
    CASE label \in {"get_count", "containsKey_count"} -> 1
      [] label \in {"get_table", "containsKey_table"} -> 2
      [] label \in {"get_first", "containsKey_first"} -> 3
      [] label = "get_value"                          -> 4
      [] label = "idle"                               -> 5
      [] OTHER                                        -> 0

\* A reader holds no lock, is not at the re-read under the lock, and its
\* next step can be taken whoever holds the lock.
ReaderNeverWaits ==
    \A t \in Threads :
        Reading(t) =>
           /\ locksHeld(t) = {}
           /\ pc[t] # "readValueUnderLock"
           /\ ENABLED ReadSteps(t)

\* Every step of a reader takes it further towards its return, and leaves
\* the locks alone: a call returns within four steps of its own.
ReaderAdvances ==
    \A t \in Threads :
        (Reading(t) /\ pc'[t] # pc[t]) =>
           /\ readRank(pc'[t]) > readRank(pc[t])
           /\ \A n \in 1..Len(segments) : segments'[n].lock = segments[n].lock
           /\ pc[t] = "get_value" => Returned(t) # Nil

\* C30: Get and ContainsKey never take a segment lock and never wait for a
\* writer: each completes within a bounded number of its own steps even
\* while another thread holds the lock of the segment, since the value read
\* from a matching entry is never nil and the re-read under the lock is
\* never taken.
C30_ReadersNeverLock ==
    /\ []ReaderNeverWaits
    /\ [][ReaderAdvances]_vars

\* A Get has read the value of key 1 from its entry while another thread
\* held the lock of the segment, and a Get has returned 1.
C30_Witness ==
    /\ \E t \in Threads : \E u \in Threads \ {t} :
          /\ pc[t] = "get_value" /\ loc[t].op = "Get"
          /\ segments[1].lock = u
    /\ \E id \in Completed : H(id).op = "Get" /\ H(id).ret = 1

(***************************************************************************)
(* SpecSegments: a map of either variant with four segments of capacity 1. *)
(* Thread 1 writes keys 1 and 2, which segmentFor routes to segment 0,     *)
(* thread 2 writes key 4, which it routes to segment 1; further threads    *)
(* make no calls.  Each segment has one writer, so whatever delays a       *)
(* writer comes from the other segment.                                    *)
(***************************************************************************)
RequestsSegments(t) ==
    IF t = 1 THEN {Put(1, 1), Put(2, 1), Remove(1), Replace(1, 2),
                   CompareAndReplace(1, 1, 2)}
    ELSE {Put(4, 1), Remove(4), Replace(4, 2), CompareAndReplace(4, 1, 2)}

InitSegments ==
    /\ \E kind \in {"cm", "wl"} : newMap3(kind, 4, DEFAULT_LOAD_FACTOR, 4)
    /\ budget = [t \in Threads |-> IF t <= 2 THEN MaxOps ELSE 0]

SegmentWriterSteps(t) ==
    \/ put_count(t) \/ put_threshold(t) \/ put_table(t) \/ put_first(t)
    \/ put_check(t) \/ put_swap(t) \/ put_recheck(t) \/ put_cas(t)
    \/ put_checkTable(t) \/ put_addCount(t) \/ put_addSum(t)
    \/ rehash_lock(t) \/ rehash_unlock(t) \/ rehash_count(t)
    \/ rehash_threshold(t) \/ rehash_table(t) \/ rehash_bucket(t)
    \/ rehash_publish(t) \/ rehash_storeThreshold(t)
    \/ remove_table(t) \/ remove_first(t) \/ remove_check(t) \/ remove_value(t)
    \/ remove_cas(t) \/ remove_checkTable(t) \/ remove_subCount(t)
    \/ remove_subSum(t)
    \/ replaceWithOld_table(t) \/ replaceWithOld_first(t) \/ replaceWithOld_check(t)
    \/ replaceWithOld_value(t) \/ replaceWithOld_store(t)
    \/ replaceWithOld_recheck(t) \/ replaceWithOld_checkTable(t)
    \/ replace_table(t) \/ replace_first(t) \/ replace_check(t) \/ replace_swap(t)
    \/ replace_recheck(t) \/ replace_checkTable(t)
    \/ WPutSteps(t) \/ w_rehash(t) \/ WRemoveSteps(t) \/ WReplaceSteps(t)

NextSegments ==
    \E t \in Threads :
        \/ Begin(t, RequestsSegments(t)) \/ SegmentWriterSteps(t)

SpecSegments == InitSegments /\ [][NextSegments]_vars

\* Thread t is inside a call that writes.
Writing(t) ==
    /\ pc[t] # "idle"
    /\ loc[t].op \in {"Put", "Remove", "Replace", "CompareAndReplace"}

\* Thread t takes the step.
Acts(t) == pc'[t] # pc[t] \/ loc'[t] # loc[t] \/ hist'[t] # hist[t]

\* A writer of a segment whose lock no thread holds can take its next
\* step, whichever other locks are held, and it is never sent back to
\* reload a bucket head.
WriterNotDelayed ==
    \A t \in Threads :
        Writing(t) =>
           /\ pc[t] \notin ReloadLabels
           /\ Seg(loc[t].seg).lock = Nil => ENABLED SegmentWriterSteps(t)

\* A step of a writer does not restart its loop because the table pointer
\* changed, and of the map's shared state it writes only its own segment,
\* the tables of that segment and the total counter.
WriterStaysInSegment ==
    \A t \in Threads :
        (Writing(t) /\ Acts(t)) =>
           /\ pc[t] \in {"put_checkTable", "remove_checkTable", "replace_checkTable",
                         "replaceWithOld_checkTable"} =>
                 pc'[t] \notin {"put_table", "remove_table", "replace_table",
                                "replaceWithOld_table"}
           /\ \A n \in 1..Len(segments) :
                 n # loc[t].seg + 1 =>
                    /\ segments'[n] = segments[n]
                    /\ tables'[segments[n].pTable] = tables[segments[n].pTable]

\* C31: writers to different segments never contend: in WLockingMap a
\* writer routed to segment A is not blocked by a lock of another segment,
\* in ConcurrentMap it neither fails a CAS nor restarts its loop because of
\* a write to another segment, and the only state that writers of different
\* segments both write is the total counter.
C31_SegmentsIndependent ==
    /\ []WriterNotDelayed
    /\ [][WriterStaysInSegment]_vars

\* Thread 1 is about to take the lock of segment 0 while thread 2 holds
\* the lock of segment 1, and both segments hold an entry.
C31_Witness ==
    /\ segments[2].lock = 2 /\ pc[1] \in LockLabels /\ loc[1].seg = 0
    /\ segments[1].count > 0 /\ segments[2].count > 0

(***************************************************************************)
(* SpecRetry: a ConcurrentMap with one segment of capacity 1, on which the *)
(* threads put, remove and replace keys 1 and 2, which share a bucket; the *)
(* second insertion rehashes.  The Go scheduler runs every goroutine that  *)
(* can run: each thread's steps are weakly fair.                           *)
(***************************************************************************)
RequestsRetry(t) ==
    IF t = 1 THEN {Put(1, 1), Remove(1), RemoveEntry(1, 1)}
    ELSE {Put(2, 1), Replace(1, 2), CompareAndReplace(1, 1, 2)}

InitRetry ==
    /\ newMap3("cm", 1, DEFAULT_LOAD_FACTOR, 1)
    /\ budget = [t \in Threads |-> MaxOps]

RetrySteps(t) ==
    \/ PutSteps(t) \/ RehashSteps(t) \/ RemoveSteps(t)
    \/ ReplaceSteps(t) \/ ReplaceWithOldSteps(t)

NextRetry == \E t \in Threads : Begin(t, RequestsRetry(t)) \/ RetrySteps(t)

SpecRetry ==
    /\ InitRetry /\ [][NextRetry]_vars
    /\ \A t \in Threads : WF_vars(RetrySteps(t))

CheckTableLabels ==
    {"put_checkTable", "remove_checkTable", "replace_checkTable",
     "replaceWithOld_checkTable"}
TableLabels == {"put_table", "remove_table", "replace_table", "replaceWithOld_table"}

\* A writer restarts its loop only when the head of its bucket is no
\* longer the one it read, or the table pointer no longer the one it
\* loaded.
RestartsOnChange ==
    \A t \in Threads :
        /\ (pc'[t] \in ReloadLabels /\ pc[t] \notin ReloadLabels) =>
              Slot(loc[t].ptable, loc[t].idx) # loc[t].first
        /\ (pc[t] \in CheckTableLabels /\ pc'[t] \in TableLabels) =>
              Seg(loc[t].seg).pTable # loc[t].ptable

\* C32: in ConcurrentMap a Put, Remove, Replace or CompareAndReplace
\* restarts its loop only after it has seen the bucket head or the table
\* pointer changed, that is, after another writer has got a write through;
\* under fair scheduling, with finitely many calls, every call returns.
C32_RetryOnlyOnChange ==
    /\ [][RestartsOnChange]_vars
    /\ \A t \in Threads : (pc[t] # "idle") ~> (pc[t] = "idle")

\* A writer is about to reload the head of its bucket, which another
\* writer has changed, and a call has returned.
C32_Witness ==
    /\ \E t \in Threads : pc[t] \in ReloadLabels
    /\ Completed # {}

(***************************************************************************)
(* The map driven by one thread, as a structure of its own: every segment  *)
(* a count, a threshold and a table of chains, a chain the sequence of its *)
(* <<key, value>> pairs from head to tail.  serialAfter replays a history  *)
(* on that structure; it knows nothing of the variant.                     *)
(***************************************************************************)
Reverse(q) == [i \in 1..Len(q) |-> q[Len(q) + 1 - i]]
positionOf(ch, k) ==
    LET P == {j \in 1..Len(ch) : ch[j][1] = k}
    IN IF P = {} THEN 0 ELSE CHOOSE j \in P : \A i \in P : j <= i

serialEmpty ==
    LET ssize == Len(segments)
        cap   == segmentCapacity(construction.initialCapacity, ssize)
    IN [segs |-> [n \in 1..ssize |->
                    [tab |-> [b \in 1..cap |-> <<>>], count |-> 0,
                     threshold |-> thresholdOf(cap, construction.loadFactor)]],
        size |-> 0]

\* The start of the last run of a chain: the first entry after which every
\* entry goes to the same slot of the new table.
lastRunAt(ch, sizeMask) ==
    LET D == {j \in 2..Len(ch) :
                 BitAnd(hash(ch[j][1]), sizeMask) # BitAnd(hash(ch[j - 1][1]), sizeMask)}
    IN IF D = {} THEN 1 ELSE CHOOSE j \in D : \A i \in D : i <= j

\* The chain of slot b of the new table, made from the old chain ch: the
\* clones of the entries before the last run, latest first, then the last
\* run if it belongs there.
serialSplit(ch, b, sizeMask) ==
    LET r       == lastRunAt(ch, sizeMask)
        Here(x) == BitAnd(hash(x[1]), sizeMask) = b
    IN Reverse(SelectSeq(SubSeq(ch, 1, r - 1), Here))
       \o (IF Here(ch[r]) THEN SubSeq(ch, r, Len(ch)) ELSE <<>>)

serialRehash(sg) ==
    LET n == Len(sg.tab)
    IN IF n >= MAXIMUM_CAPACITY THEN sg
       ELSE [sg EXCEPT
               !.tab = [b \in 1..(2 * n) |->
                          LET ch == sg.tab[((b - 1) % n) + 1]
                          IN IF ch = <<>> THEN <<>>
                             ELSE serialSplit(ch, b - 1, 2 * n - 1)],
               !.threshold = thresholdOf(2 * n, construction.loadFactor)]

serialPut(R, o) ==
    LET s   == segmentFor(hash(o.key)) + 1
        sg  == IF R.segs[s].count > R.segs[s].threshold
               THEN serialRehash(R.segs[s]) ELSE R.segs[s]
        b   == BitAnd(hash(o.key), Len(sg.tab) - 1) + 1
        pos == positionOf(sg.tab[b], o.key)
    IN IF pos = 0
       THEN [segs |-> [R.segs EXCEPT ![s] =
                         [sg EXCEPT !.tab[b] = <<<<o.key, o.value>>>> \o @,
                                    !.count = @ + 1]],
             size |-> R.size + 1]
       ELSE IF o.op = "PutIfAbsent" THEN [R EXCEPT !.segs[s] = sg]
       ELSE [R EXCEPT !.segs[s] = [sg EXCEPT !.tab[b][pos][2] = o.value]]

serialRemove(R, o) ==
    LET s   == segmentFor(hash(o.key)) + 1
        sg  == R.segs[s]
        b   == BitAnd(hash(o.key), Len(sg.tab) - 1) + 1
        ch  == sg.tab[b]
        pos == positionOf(ch, o.key)
    IN IF pos # 0 /\ (o.op = "Remove" \/ ch[pos][2] = o.value)
       THEN [segs |-> [R.segs EXCEPT ![s] =
                         [sg EXCEPT !.tab[b] = Reverse(SubSeq(ch, 1, pos - 1))
                                               \o SubSeq(ch, pos + 1, Len(ch)),
                                    !.count = @ - 1]],
             size |-> R.size - 1]
       ELSE R

serialReplace(R, o) ==
    LET s   == segmentFor(hash(o.key)) + 1
        sg  == R.segs[s]
        b   == BitAnd(hash(o.key), Len(sg.tab) - 1) + 1
        pos == positionOf(sg.tab[b], o.key)
    IN IF pos # 0 /\ (o.op = "Replace" \/ sg.tab[b][pos][2] = o.old)
       THEN [R EXCEPT !.segs[s].tab[b][pos][2] = o.value]
       ELSE R

RECURSIVE serialCount(_, _)
serialCount(R, n) == IF n = 0 THEN 0 ELSE R.segs[n].count + serialCount(R, n - 1)

serialClear(R) ==
    [segs |-> [n \in DOMAIN R.segs |->
                 IF R.segs[n].count = 0 THEN R.segs[n]
                 ELSE [R.segs[n] EXCEPT !.tab = [b \in DOMAIN @ |-> <<>>],
                                        !.count = 0]],
     size |-> R.size - serialCount(R, Len(R.segs))]

\* PutAll: a Put of every pair with a key and a value, in the order q.
accepted(q) == SelectSeq(q, LAMBDA kv : argumentError(Put(kv[1], kv[2])) = Nil)
RECURSIVE serialPutEach(_, _)
serialPutEach(R, q) ==
    IF q = <<>> THEN R
    ELSE serialPutEach(serialPut(R, Put(Head(q)[1], Head(q)[2])), Tail(q))
serialPutAll(R, o) == serialPutEach(R, accepted(o.order))

\* The pairs of a map taken by ascending key.
RECURSIVE inKeyOrder(_)
inKeyOrder(S) ==
    IF S = {} THEN <<>>
    ELSE LET kv == CHOOSE x \in S : \A y \in S : x[1] <= y[1]
         IN <<kv>> \o inKeyOrder(S \ {kv})

serialStep(o, R) ==
    CASE o.op \in {"Put", "PutIfAbsent"}          -> serialPut(R, o)
      [] o.op = "PutAll"                          -> serialPutAll(R, o)
      [] o.op \in {"Remove", "RemoveEntry"}       -> serialRemove(R, o)
      [] o.op \in {"Replace", "CompareAndReplace"} -> serialReplace(R, o)
      [] o.op = "Clear"                           -> serialClear(R)
      [] OTHER                                    -> R

RECURSIVE serialAfter(_, _)
serialAfter(h, n) ==
    IF n = 0 THEN serialEmpty ELSE serialStep(h[n], serialAfter(h, n - 1))

\* The same replay with nothing but the calls and their arguments to go
\* by: every PutAll taken to put its pairs by ascending key.
RECURSIVE serialAfterAsCalled(_, _)
serialAfterAsCalled(h, n) ==
    IF n = 0 THEN serialEmpty
    ELSE LET o == h[n]
         IN serialStep(IF o.op = "PutAll"
                       THEN [o EXCEPT !.order = inKeyOrder(o.m.pairs)] ELSE o,
                       serialAfterAsCalled(h, n - 1))

\* The mapping a structure holds.
serialMapping(R) ==
    [k \in Keys |->
        LET s   == segmentFor(hash(k)) + 1
            ch  == R.segs[s].tab[BitAnd(hash(k), Len(R.segs[s].tab) - 1) + 1]
            pos == positionOf(ch, k)
        IN IF pos = 0 THEN Nil ELSE ch[pos][2]]

\* The keys in the order an iterator meets them: the segments from the
\* last to the first, a segment whose count is 0 passed over without a
\* look at its table (if atomic.LoadInt32(&seg.count) != 0 { ... }); in a
\* segment the slots from the last to the first, in a slot the chain from
\* head to tail.
RECURSIVE keysDownFrom(_, _)
keysDownFrom(tab, b) ==
    IF b = 0 THEN <<>>
    ELSE [j \in 1..Len(tab[b]) |-> tab[b][j][1]] \o keysDownFrom(tab, b - 1)
RECURSIVE serialOrder(_, _)
serialOrder(R, n) ==
    IF n = 0 THEN <<>>
    ELSE (IF R.segs[n].count = 0 THEN <<>>
          ELSE keysDownFrom(R.segs[n].tab, Len(R.segs[n].tab)))
         \o serialOrder(R, n - 1)

\* The structure the map is in.
structure ==
    [segs |-> [n \in 1..Len(segments) |->
                 [tab |-> [b \in 1..tableLen(n) |->
                             LET c == chainSeq(heap, tables[segments[n].pTable][b])
                             IN [j \in 1..Len(c) |-> <<heap[c[j]].key, heap[c[j]].value>>]],
                  count |-> segments[n].count,
                  threshold |-> segments[n].threshold]],
     size |-> Size]

(***************************************************************************)
(* SpecSerial: a map of either variant driven by thread 1 alone: calls     *)
(* that read or change the map, then an iterator, driven with HasNext and  *)
(* NextEntry until HasNext is false.  The map has four segments of         *)
(* capacity 1 and the default load factor (keys 1, 2 and 3 are of segment  *)
(* 0, which rehashes, key 4 of segment 1), with SerialOps calls; or one    *)
(* segment of capacity 1 and load factor 3, with one call more, so that a  *)
(* chain grows to three entries and a removal clones two of them; or the   *)
(* map NewConcurrentMapFromMap / NewWLockingMapFromMap makes of a Go map,  *)
(* sixteen segments of capacity 4 (keys 1 and 5 share slot 0 of segment 0, *)
(* key 4 is of segment 4), with one call after the constructor's PutAll.   *)
(* The calls include PutAll: of the nil map, of maps whose keys share a    *)
(* chain, and of a map with a nil key and a nil value.                     *)
(***************************************************************************)
SerialOps == 3

\* The Go maps passed to PutAll and to the constructors.
MapOfTwo == GoMap({<<1, 1>>, <<2, 2>>})
MapWithNils == GoMap({<<1, Nil>>, <<Nil, 1>>, <<3, 2>>})
MapOfOneChain == GoMap({<<1, 1>>, <<2, 1>>, <<3, 1>>})
MapFromMap == GoMap({<<1, 1>>, <<5, 1>>, <<4, 1>>})

\* The iterator of the history has been driven to its end.
exhausted(h) ==
    /\ h # <<>>
    /\ h[Len(h)].op = "HasNext"
    /\ ~h[Len(h)].ret


RequestsSerial ==
    LET h == hist[1]
        first(S) == IF h = <<>> THEN S ELSE {}
        once(S) == IF \E n \in 1..Len(h) : h[n].op = "PutAll" THEN {} ELSE S
    IN IF \E n \in 1..Len(h) : h[n].op = "Iterator"
       THEN (IF h[Len(h)].op # "HasNext" THEN {HasNext}
             ELSE IF h[Len(h)].ret THEN {NextEntry} ELSE {})
       ELSE IF Len(segments) = 1
       THEN {Iterator} \cup
            (IF Len(h) > SerialOps THEN {}
             ELSE {Put(1, 1), Put(2, 1), Put(3, 1), Remove(1), RemoveEntry(2, 1)}
                  \cup first({PutAll(MapOfOneChain)}))
       ELSE IF Len(segments) = DEFAULT_CONCURRENCY_LEVEL
       THEN {Iterator} \cup
            (IF Len(h) >= 2 THEN {}
             ELSE {Put(2, 1), Remove(1), PutAll(MapWithNils)})
       ELSE {Iterator} \cup
            (IF Len(h) >= SerialOps THEN {}
             ELSE {Get(1), ContainsKey(2), Put(1, 1), PutIfAbsent(1, 2), Remove(1),
                   RemoveEntry(2, 2), Replace(1, 2), CompareAndReplace(2, 1, 2),
                   Put(2, 1), Remove(2), Put(3, 1), Put(4, 1), Clear}
                  \cup once({PutAll(MapOfTwo), PutAll(NilMap)}))

InitSerial ==
    /\ \E kind \in {"cm", "wl"} :
          \/ newMap3(kind, 4, DEFAULT_LOAD_FACTOR, 4)
          \/ newMap3(kind, 1, <<3, 1>>, 1)
          \/ \E m \in {NilMap, MapFromMap} : newMapFromMap(kind, m)
    /\ budget = [t \in Threads |-> IF t = 1 THEN SerialOps + 10 ELSE 0]

NextSerial ==
    \E t \in Threads :
        \/ Begin(t, RequestsSerial) \/ SeqSteps(t) \/ IteratorSteps(t)
        \/ PutAllSteps(t)
        \/ WReadSteps(t) \/ WPutSteps(t) \/ w_rehash(t) \/ WRemoveSteps(t)
        \/ WReplaceSteps(t) \/ WClearSteps(t)

SpecSerial == InitSerial /\ [][NextSerial]_vars

\* The calls of the history before its iterator was made, and the keys its
\* NextEntry calls have returned.
mutationsOf(h) ==
    SelectSeq(h, LAMBDA c : c.op \notin {"Iterator", "HasNext", "NextEntry"})
keysReturned(h) ==
    LET got == SelectSeq(h, LAMBDA c : c.op = "NextEntry")
    IN [j \in 1..Len(got) |-> heap[got[j].ret].key]

\* The mapping, the segment counts and the size of a structure, and the
\* lengths of its tables.
contents(R) ==
    [counts |-> [n \in DOMAIN R.segs |-> R.segs[n].count],
     size |-> R.size, mapping |-> serialMapping(R)]
tableLengths(R) == [n \in DOMAIN R.segs |-> Len(R.segs[n].tab)]

\* C33 as stated: driven by one thread with the same calls, the two
\* variants return the same results, hold the same mapping, segment counts,
\* table lengths and Size() after every call, and their iterators return
\* the keys in the same order, the calls and their arguments deciding all
\* of it.  A PutAll puts the pairs of its map in the order its range
\* yields them, which the map does not decide: the serial structure is
\* given the ascending keys here, and no other order it could be given
\* fares better.  A Put tests the count before it looks for its key, so
\* the order decides the table lengths too.
C33_AsStated ==
    LET h == hist[1]
        m == mutationsOf(h)
        R == serialAfterAsCalled(m, Len(m))
    IN /\ \A n \in 1..Len(m) :
             m[n].ret = refRet(m[n], serialMapping(serialAfterAsCalled(m, n - 1)))
       /\ pc[1] = "idle" =>
             /\ contents(structure) = contents(R)
             /\ tableLengths(structure) = tableLengths(R)
       /\ LET ks == keysReturned(h)
              all == serialOrder(R, Len(R.segs))
          IN /\ Len(ks) <= Len(all)
             /\ ks = SubSeq(all, 1, Len(ks))
             /\ exhausted(h) => ks = all

\* C33: driven by one thread with the same calls, the two variants return
\* the same results and, between calls, hold the same mapping, segment
\* counts and Size(), whatever the order in which a PutAll ranges over its
\* map; and with every PutAll ranging in the same order they also hold the
\* same table lengths, thresholds and chains and their iterators return
\* the keys in the same order: each of them returns what the one serial
\* structure gives and is between calls in the state of that structure.
C33_SerialEquivalence ==
    LET h == hist[1]
        m == mutationsOf(h)
        R == serialAfter(m, Len(m))
    IN /\ \A n \in 1..Len(m) :
             m[n].ret = refRet(m[n], serialMapping(serialAfterAsCalled(m, n - 1)))
       /\ pc[1] = "idle" =>
             contents(structure) = contents(serialAfterAsCalled(m, Len(m)))
       /\ pc[1] = "idle" => structure = R
       /\ LET ks == keysReturned(h)
              all == serialOrder(R, Len(R.segs))
          IN /\ Len(ks) <= Len(all)
             /\ ks = SubSeq(all, 1, Len(ks))
             /\ exhausted(h) => ks = all
             /\ (h # <<>> /\ h[Len(h)].op = "HasNext") =>
                   (h[Len(h)].ret <=> Len(ks) < Len(all))

\* An iterator has returned three keys, of two segments, of a map whose
\* segment 0 was rehashed by a PutAll that put key 2 before key 1, and is
\* exhausted.
C33_Witness ==
    /\ pc[1] = "idle" /\ exhausted(hist[1])
    /\ Len(keysReturned(hist[1])) = 3
    /\ tableLen(1) = 2 /\ segments[2].count = 1
    /\ \E n \in 1..Len(hist[1]) :
          hist[1][n].op = "PutAll" /\ hist[1][n].order = <<<<2, 2>>, <<1, 1>>>>

\* The same PutAll has put key 1 before key 2, and the iterator has
\* returned the two keys the other way round.
PutAllRangedAscending ==
    /\ pc[1] = "idle" /\ exhausted(hist[1])
    /\ keysReturned(hist[1]) = <<4, 2, 1>>
    /\ \E n \in 1..Len(hist[1]) :
          hist[1][n].op = "PutAll" /\ hist[1][n].order = <<<<1, 1>>, <<2, 2>>>>
PutAllRangedDescending ==
    /\ pc[1] = "idle" /\ exhausted(hist[1])
    /\ keysReturned(hist[1]) = <<4, 1, 2>>
    /\ \E n \in 1..Len(hist[1]) :
          hist[1][n].op = "PutAll" /\ hist[1][n].order = <<<<2, 2>>, <<1, 1>>>>

\* After Put(2, 1), the table of segment 0 has length 2 when PutAll has put
\* key 2 before key 1, and length 4 when it has put key 1 before key 2.
PutAllGrownOnce ==
    /\ pc[1] = "idle" /\ Len(hist[1]) = 2 /\ tableLen(1) = 2
    /\ hist[1][1].op = "Put" /\ hist[1][1].key = 2
    /\ hist[1][2].op = "PutAll" /\ hist[1][2].order = <<<<2, 2>>, <<1, 1>>>>
PutAllGrownTwice ==
    /\ pc[1] = "idle" /\ Len(hist[1]) = 2 /\ tableLen(1) = 4
    /\ hist[1][1].op = "Put" /\ hist[1][1].key = 2
    /\ hist[1][2].op = "PutAll" /\ hist[1][2].order = <<<<1, 1>>, <<2, 2>>>>

\* The constructor from a map has put the pairs of its map, keys 5 and 1
\* in one chain of segment 0 and key 4 in segment 4, and a PutAll of a map
\* with a nil key and a nil value has put the one pair with neither and
\* returned no error.
FromMapThenPutAll ==
    /\ pc[1] = "idle" /\ Len(segments) = DEFAULT_CONCURRENCY_LEVEL
    /\ Len(hist[1]) >= 2
    /\ hist[1][1].op = "PutAll" /\ hist[1][1].m = MapFromMap
    /\ hist[1][2].op = "PutAll" /\ hist[1][2].m = MapWithNils
    /\ hist[1][2].ret = Nil
    /\ Len(structure.segs[1].tab[1]) = 2 /\ segments[5].count = 1
    /\ valueOf(3) = 2 /\ Size = 4

\* PutAll of the nil map has returned its error and left the map as it was.
PutAllOfNilMap ==
    /\ pc[1] = "idle" /\ hist[1] # <<>>
    /\ hist[1][Len(hist[1])].op = "PutAll" /\ hist[1][Len(hist[1])].m = NilMap
    /\ hist[1][Len(hist[1])].ret = CannotCopyNilMap
    /\ structure = serialAfter(hist[1], Len(hist[1]) - 1)
    /\ Size > 0

\* The removal of the third entry of a chain has cloned the two before it.
RemovalClonedTwo ==
    /\ pc[1] = "idle" /\ Len(segments) = 1
    /\ Len(mutationsOf(hist[1])) = SerialOps + 1
    /\ Len(structure.segs[1].tab[1]) = 2 /\ Len(heap) = 5

\* The keys of the map as its tables hold them, from the last slot of the
\* last segment to the first slot of the first, every chain from its head.
iterationOrder == serialOrder(structure, Len(segments))

\* The keys returned so far are the first of that order, and every key of
\* it has been returned once HasNext is false.
IteratesDownwards ==
    LET ks == keysReturned(hist[1])
    IN /\ Len(ks) <= Len(iterationOrder)
       /\ ks = SubSeq(iterationOrder, 1, Len(ks))
       /\ exhausted(hist[1]) => ks = iterationOrder

\* The iterator goes down one segment at a time and loads the table of a
\* segment, the only read of it, only when the count of the segment is not
\* zero; over a segment of count zero it keeps the table it had.
SkipsEmptySegments ==
    /\ iter'.nextSegmentIndex # iter.nextSegmentIndex /\ iter.cm # "none" =>
          /\ iter'.nextSegmentIndex = iter.nextSegmentIndex - 1
          /\ Seg(iter.nextSegmentIndex).count = 0 =>
                /\ \A t \in Threads : pc'[t] # "advance_loadTable"
                /\ iter'.currentTable = iter.currentTable
    /\ \A t \in Threads :
          (pc'[t] = "advance_loadTable" /\ pc[t] # "advance_loadTable") =>
              Seg(loc'[t].seg).count # 0
    /\ iter'.currentTable # iter.currentTable =>
          \E t \in Threads :
              /\ pc[t] = "advance_loadTable"
              /\ Seg(loc[t].seg).count # 0
              /\ iter'.currentTable = Seg(loc[t].seg).pTable

\* C34: with no mutation while it runs, an iterator returns the entries
\* segment by segment from the highest index to the lowest, in a segment
\* slot by slot from the highest index to the lowest, each chain from head
\* to tail; a segment whose count is zero is passed without its table
\* being loaded.
C34_IterationOrder == []IteratesDownwards /\ [][SkipsEmptySegments]_vars

\* The iterator has passed the empty segments 3 and 2, has returned key 4 of
\* segment 1 and key 2, the head of a chain of segment 0, and holds key 1.
C34_Witness ==
    /\ pc[1] = "idle"
    /\ keysReturned(hist[1]) = <<4, 2>>
    /\ iter.nextEntry # Nil /\ heap[iter.nextEntry].key = 1
    /\ segments[3].count = 0 /\ segments[4].count = 0

\* C35: in both variants Size() and the count of every segment are never
\* negative, whatever the interleaving of Clear with Put and Remove calls
\* on the same segment.
C35_CountsNeverNegative ==
    /\ Size >= 0
    /\ \A n \in 1..Len(segments) : segments[n].count >= 0

====
